---- MODULE Spec2Model ----
(***************************************************************************)
(* Model of the exchange-rate service: the rate repository (cache-aside    *)
(* coordinator), its cache back ends and provider client, the service      *)
(* layer (validation, conversion) and the time-series entry points.        *)
(*                                                                         *)
(* Time is counted in minutes.  Rates and amounts are integers: a rate is  *)
(* counted in hundredths (92 stands for 0.92), so amount * rate is exact.  *)
(* A string is a sequence of tokens, so that formatting a cache key is a   *)
(* concatenation and not an injective pairing.                             *)
(***************************************************************************)
EXTENDS Integers, Sequences, FiniteSets, TLC

VARIABLES config, cache, store, now, ticks, firstCall, seen, last, procs

vars == <<config, cache, store, now, ticks, firstCall, seen, last, procs>>

(***************************************************************************)
(* Bounds                                                                  *)
(***************************************************************************)
MaxTicks == 1
MaxDay == 3
NProcs == 2

(***************************************************************************)
(* Program constants                                                       *)
(***************************************************************************)
LatestTTL == 5
HistoricalTTL == 1440
CurrenciesTTL == 1440
StatusOK == 200
StatusBadRequest == 400
StatusNotFound == 404
StatusUnauthorized == 401
StatusForbidden == 403
StatusInternalServerError == 500
StatusServiceUnavailable == 503

ProviderName == <<"open.er-api.com">>

(***************************************************************************)
(* Input domains                                                           *)
(***************************************************************************)
EmptyString == <<>>
USD == <<"USD">>
EUR == <<"EUR">>
RealCodes == {USD, EUR}
Currencies == RealCodes \cup {EmptyString}
RateValues == {92, 109}
Amounts == {-5, 0, 3, 100}
TickSteps == {1, LatestTTL, HistoricalTTL}
Days == 1..MaxDay
DateStr == <<"2024-02-01", "2024-02-02", "2024-02-03", "2024-02-04",
             "2024-02-05", "2024-02-06", "2024-02-07", "2024-02-08",
             "2024-02-09", "2024-02-10", "2024-02-11", "2024-02-12">>
UpstreamStatuses == {500}

(***************************************************************************)
(* Errors (internal/errors)                                                *)
(***************************************************************************)
\* the nil error
NoErr == [app |-> FALSE, type |-> "nil", message |-> "", details |-> "", cause |-> ""]

\* fmt.Errorf: a plain error, not an *AppError; cause is the wrapped error
Errorf(msg, cause) ==
    [app |-> FALSE, type |-> "", message |-> msg, details |-> "", cause |-> cause]

NewValidationError(message, details) ==
    [app |-> TRUE, type |-> "VALIDATION_ERROR", message |-> message,
     details |-> details, cause |-> ""]

NewProviderError(message, cause) ==
    [app |-> TRUE, type |-> "PROVIDER_ERROR", message |-> message,
     details |-> "", cause |-> cause]

IsNil(err) == err.type = "nil"

IsValidationError(err) == err.app /\ err.type = "VALIDATION_ERROR"

GetHTTPStatusCode(err) ==
    IF err.app
    THEN CASE err.type = "VALIDATION_ERROR" -> StatusBadRequest
           [] err.type = "NOT_FOUND" -> StatusNotFound
           [] err.type = "UNAUTHORIZED" -> StatusUnauthorized
           [] err.type = "FORBIDDEN" -> StatusForbidden
           [] err.type = "PROVIDER_ERROR" -> StatusServiceUnavailable
           [] err.type = "CACHE_ERROR" -> StatusServiceUnavailable
           [] OTHER -> StatusInternalServerError
    ELSE StatusInternalServerError

(***************************************************************************)
(* Domain entities and their JSON form (internal/models)                   *)
(***************************************************************************)
NoVal == [shape |-> "nil"]

ExchangeRate(base, target, rate, provider, fetchedAt) ==
    [shape |-> "ExchangeRate", BaseCurrency |-> base, TargetCurrency |-> target,
     Rate |-> rate, Provider |-> provider, FetchedAt |-> fetchedAt]

HistoricalRate(base, target, rate, date, provider, fetchedAt) ==
    [shape |-> "HistoricalRate", BaseCurrency |-> base, TargetCurrency |-> target,
     Rate |-> rate, Date |-> date, Provider |-> provider, FetchedAt |-> fetchedAt]

Currency(code) == [Code |-> code, Name |-> code, IsSupported |-> TRUE]

CurrencyList(items) == [shape |-> "Currencies", items |-> items]

\* json.Marshal: a struct becomes an object of its tagged fields, a slice an array.
\* mistyped names the fields of an object whose JSON value is not of the type
\* the struct field has; Marshal produces none.
Marshal(v) ==
    CASE v.shape = "ExchangeRate" ->
           [json |-> "object", base_currency |-> v.BaseCurrency,
            target_currency |-> v.TargetCurrency, rate |-> v.Rate, date |-> 0,
            provider |-> v.Provider, fetched_at |-> v.FetchedAt, mistyped |-> {}]
      [] v.shape = "HistoricalRate" ->
           [json |-> "object", base_currency |-> v.BaseCurrency,
            target_currency |-> v.TargetCurrency, rate |-> v.Rate, date |-> v.Date,
            provider |-> v.Provider, fetched_at |-> v.FetchedAt, mistyped |-> {}]
      [] v.shape = "Currencies" -> [json |-> "array", items |-> v.items]
      [] OTHER -> [json |-> "null"]

\* the zero value of a destination
Zero(dest) ==
    CASE dest = "ExchangeRate" -> ExchangeRate(<<>>, <<>>, 0, <<>>, 0)
      [] dest = "HistoricalRate" -> HistoricalRate(<<>>, <<>>, 0, 0, <<>>, 0)
      [] OTHER -> CurrencyList(<<>>)

\* json.Unmarshal into a destination of the given type; null leaves it as it
\* is; a field of the wrong JSON type is skipped, the others are decoded, and
\* the error is returned at the end
Unmarshal(bytes, dest) ==
    CASE bytes.json = "null" -> [ok |-> TRUE, val |-> Zero(dest)]
      [] bytes.json = "object" /\ dest = "ExchangeRate" /\ bytes.mistyped # {} ->
           [ok |-> FALSE,
            val |-> ExchangeRate(bytes.base_currency, bytes.target_currency,
                                 IF "rate" \in bytes.mistyped THEN 0 ELSE bytes.rate,
                                 bytes.provider, bytes.fetched_at)]
      [] bytes.json = "object" /\ dest = "HistoricalRate" /\ bytes.mistyped # {} ->
           [ok |-> FALSE,
            val |-> HistoricalRate(bytes.base_currency, bytes.target_currency,
                                   IF "rate" \in bytes.mistyped THEN 0 ELSE bytes.rate,
                                   bytes.date, bytes.provider, bytes.fetched_at)]
      [] bytes.json = "object" /\ dest = "ExchangeRate" ->
           [ok |-> TRUE,
            val |-> ExchangeRate(bytes.base_currency, bytes.target_currency,
                                 bytes.rate, bytes.provider, bytes.fetched_at)]
      [] bytes.json = "object" /\ dest = "HistoricalRate" ->
           [ok |-> TRUE,
            val |-> HistoricalRate(bytes.base_currency, bytes.target_currency,
                                   bytes.rate, bytes.date, bytes.provider,
                                   bytes.fetched_at)]
      [] bytes.json = "array" /\ dest = "Currencies" ->
           [ok |-> TRUE, val |-> CurrencyList(bytes.items)]
      [] OTHER -> [ok |-> FALSE, val |-> NoVal]

(***************************************************************************)
(* Cache back ends (repository: RedisCache, InMemoryCache)                 *)
(***************************************************************************)
Put(st, key, entry) ==
    [k \in DOMAIN st \cup {key} |-> IF k = key THEN entry ELSE st[k]]

\* the keys of the networked store expire natively
Live(st, t) ==
    LET keep == {k \in DOMAIN st : t < st[k].exp}
    IN [k \in keep |-> st[k]]

\* a key past its expiry is gone, whether or not it has been swept yet
RedisCacheGet(st, key, dest, t, connOk) ==
    IF ~connOk \/ key \notin DOMAIN Live(st, t)
    THEN [ok |-> FALSE, val |-> NoVal]
    ELSE Unmarshal(st[key].bytes, dest)

RedisCacheSet(st, key, value, expiration, t, connOk) ==
    IF ~connOk
    THEN [ok |-> FALSE, st |-> st]
    ELSE [ok |-> TRUE, st |-> Put(st, key, [bytes |-> Marshal(value), exp |-> t + expiration])]

\* mutant: the fallback's Get returns nil without filling the destination
InMemoryCacheGet_NilError(st, key, dest) == [ok |-> TRUE, val |-> Zero(dest)]

InMemoryCacheGet(st, key, dest) == [ok |-> FALSE, val |-> NoVal]

InMemoryCacheSet(st, key, value, expiration) == [ok |-> TRUE, st |-> st]

CacheGet(st, key, dest, t, connOk) ==
    IF cache = "redis" THEN RedisCacheGet(st, key, dest, t, connOk)
    ELSE InMemoryCacheGet(st, key, dest)

\* mutant: the backend is chosen at each write by whether the networked store
\* answers
CacheSet_Reselect(st, key, value, expiration, t, connOk) ==
    IF connOk THEN RedisCacheSet(st, key, value, expiration, t, connOk)
    ELSE InMemoryCacheSet(st, key, value, expiration)

CacheSet(st, key, value, expiration, t, connOk) ==
    IF cache = "redis" THEN RedisCacheSet(st, key, value, expiration, t, connOk)
    ELSE InMemoryCacheSet(st, key, value, expiration)

\* mutant: the ping of the fallback reports the state of the networked cache
CachePing_FollowsNetwork(connOk) == connOk

CachePing(connOk) == IF cache = "redis" THEN connOk ELSE TRUE

(***************************************************************************)
(* Upstream HTTP responses, as the provider client sees them               *)
(***************************************************************************)
\* the rate mappings the upstream answers with: it quotes EUR or nothing
RateMaps == {[c \in S |-> v] : S \in {{}, {EUR}}, v \in RateValues}

NoRates == [c \in {} |-> 0]

\* one response per way the client's checks can go; fields the client never
\* reaches are fixed
UpResponses ==
    {[neterr |-> TRUE, status |-> 0, decodable |-> FALSE, result |-> "", rates |-> NoRates]}
    \cup {[neterr |-> FALSE, status |-> s, decodable |-> FALSE, result |-> "", rates |-> NoRates] :
            s \in UpstreamStatuses}
    \cup {[neterr |-> FALSE, status |-> StatusOK, decodable |-> TRUE, result |-> "error", rates |-> NoRates]}
    \cup {[neterr |-> FALSE, status |-> StatusOK, decodable |-> TRUE, result |-> "success", rates |-> m] :
            m \in RateMaps}

\* the orders in which a Go map of the real codes can be ranged over
CodeOrders ==
    {o \in [1..Cardinality(RealCodes) -> RealCodes] : \A i, j \in DOMAIN o : i # j => o[i] # o[j]}

(***************************************************************************)
(* Provider client (repository: OpenERAPIClient)                           *)
(***************************************************************************)
Failed(err) == [ok |-> FALSE, val |-> NoVal, err |-> err]

Succeeded(val) == [ok |-> TRUE, val |-> val, err |-> NoErr]

\* mutant: the success indicator of the decoded body is not looked at
ClientGetLatestRate_NoResultCheck(base, target, up, t) ==
    IF up.neterr THEN Failed(Errorf("failed to make request", "transport"))
    ELSE IF up.status # StatusOK THEN Failed(Errorf("API returned status", ""))
    ELSE IF ~up.decodable THEN Failed(Errorf("failed to decode response", "json"))
    ELSE IF target \notin DOMAIN up.rates THEN Failed(Errorf("rate not found", ""))
    ELSE Succeeded(ExchangeRate(base, target, up.rates[target], ProviderName, t))

ClientGetLatestRate(base, target, up, t) ==
    IF up.neterr THEN Failed(Errorf("failed to make request", "transport"))
    ELSE IF up.status # StatusOK THEN Failed(Errorf("API returned status", ""))
    ELSE IF ~up.decodable THEN Failed(Errorf("failed to decode response", "json"))
    ELSE IF up.result # "success" THEN Failed(Errorf("API returned error result", ""))
    ELSE IF target \notin DOMAIN up.rates THEN Failed(Errorf("rate not found", ""))
    ELSE Succeeded(ExchangeRate(base, target, up.rates[target], ProviderName, t))

ClientGetHistoricalRate(base, target, date, up, t) ==
    Failed(Errorf("historical rates not supported in free tier", ""))

ClientGetSupportedCurrencies(up, order) ==
    IF up.neterr THEN Failed(Errorf("failed to make request", "transport"))
    ELSE IF up.status # StatusOK THEN Failed(Errorf("API returned status", ""))
    ELSE IF ~up.decodable THEN Failed(Errorf("failed to decode response", "json"))
    ELSE IF up.result # "success" THEN Failed(Errorf("API returned error result", ""))
    ELSE LET codes == SelectSeq(order, LAMBDA c : c \in DOMAIN up.rates)
         IN Succeeded(CurrencyList([i \in 1..Len(codes) |-> Currency(codes[i])]))

ClientHealthCheck(up) ==
    IF up.neterr THEN Errorf("health check failed", "transport")
    ELSE IF up.status # StatusOK THEN Errorf("health check returned status", "")
    ELSE NoErr

(***************************************************************************)
(* Cache keys                                                              *)
(***************************************************************************)
FormatDate(date) == <<DateStr[date]>>

LatestKey(base, target) ==
    <<"rate", ":">> \o base \o <<":">> \o target \o <<":", "latest">>

HistoricalKey(base, target, date) ==
    <<"rate", ":">> \o base \o <<":">> \o target \o <<":">> \o FormatDate(date)

CurrenciesKey == <<"currencies", ":", "supported">>

(***************************************************************************)
(* Rate repository (the coordinator)                                       *)
(* Every operation maps the store before the call to the store after it    *)
(* and reports what it returned and which calls it made.                   *)
(***************************************************************************)
\* the environment of one repository call: whether the cache answers its
\* read and its write, and what the upstream answers
Envs == [getOk : BOOLEAN, setOk : BOOLEAN, up : UpResponses]

\* the type of the destination each method reads its cache entry into
DestOf(fn) ==
    CASE fn = "GetLatestRate" -> "ExchangeRate"
      [] fn = "GetHistoricalRate" -> "HistoricalRate"
      [] OTHER -> "Currencies"

\* the historical client issues no request: what the upstream would answer
\* is immaterial to a historical lookup
NoUpstream == [neterr |-> TRUE, status |-> 0, decodable |-> FALSE, result |-> "", rates |-> NoRates]

\* getErr, setErr: whether the cache's Get and Set returned an error;
\* up: what the upstream answered the call's latest-rate request;
\* connGet: whether the networked store could be reached for the read;
\* cold: the store holds no live entry for the key; warm: it holds one that
\* decodes
RepoCall(fn, key, st, st2, t, e, ok, val, err, gets, sets, pcalls, fetched, getErr, setErr) ==
    [st |-> st2,
     call |-> [fn |-> fn, key |-> key, ok |-> ok, val |-> val, err |-> err,
               gets |-> gets, sets |-> sets, pcalls |-> pcalls, fetched |-> fetched,
               getErr |-> getErr, setErr |-> setErr, connGet |-> e.getOk,
               up |-> IF fn = "GetLatestRate" /\ pcalls = 1 THEN e.up ELSE NoUpstream,
               cold |-> key \notin DOMAIN Live(st, t),
               warm |-> /\ key \in DOMAIN Live(st, t)
                        /\ Unmarshal(st[key].bytes, DestOf(fn)).ok,
               changed |-> st2 # st]]

\* what a call that made no provider request fetched
NoFetch == [ok |-> FALSE, val |-> NoVal, err |-> NoErr]

\* mutant: the result is cached under the key of the opposite pair
RepoGetLatestRate_WrongKey(st, t, baseCurrency, targetCurrency, e) ==
    LET cacheKey == LatestKey(baseCurrency, targetCurrency)
        rate == CacheGet(st, cacheKey, "ExchangeRate", t, e.getOk)
        ratePtr == ClientGetLatestRate(baseCurrency, targetCurrency, e.up, t)
        set == CacheSet(st, LatestKey(targetCurrency, baseCurrency), ratePtr.val,
                        LatestTTL, t, e.setOk)
    IN IF rate.ok
       THEN RepoCall("GetLatestRate", cacheKey, st, st, t, e,
                     TRUE, rate.val, NoErr, 1, 0, 0, NoFetch, FALSE, FALSE)
       ELSE IF ~ratePtr.ok
            THEN RepoCall("GetLatestRate", cacheKey, st, st, t, e,
                          FALSE, NoVal, ratePtr.err, 1, 0, 1, ratePtr, TRUE, FALSE)
            ELSE RepoCall("GetLatestRate", cacheKey, st, set.st, t, e,
                          TRUE, ratePtr.val, NoErr, 1, 1, 1, ratePtr, TRUE, ~set.ok)

\* mutant: the fetched rate is copied into the variable the cache entry was
\* decoded into, and that variable is returned
RepoGetLatestRate_KeepsPartial(st, t, baseCurrency, targetCurrency, e) ==
    LET cacheKey == LatestKey(baseCurrency, targetCurrency)
        rate == CacheGet(st, cacheKey, "ExchangeRate", t, e.getOk)
        ratePtr == ClientGetLatestRate(baseCurrency, targetCurrency, e.up, t)
        set == CacheSet(st, cacheKey, ratePtr.val, LatestTTL, t, e.setOk)
        merged == IF rate.val = NoVal THEN ratePtr.val
                  ELSE [rate.val EXCEPT !.Rate = ratePtr.val.Rate]
    IN IF rate.ok
       THEN RepoCall("GetLatestRate", cacheKey, st, st, t, e,
                     TRUE, rate.val, NoErr, 1, 0, 0, NoFetch, FALSE, FALSE)
       ELSE IF ~ratePtr.ok
            THEN RepoCall("GetLatestRate", cacheKey, st, st, t, e,
                          FALSE, NoVal, ratePtr.err, 1, 0, 1, ratePtr, TRUE, FALSE)
            ELSE RepoCall("GetLatestRate", cacheKey, st, set.st, t, e,
                          TRUE, merged, NoErr, 1, 1, 1, ratePtr, TRUE, ~set.ok)

\* mutant: a failing cache write fails the read
RepoGetLatestRate_SetFatal(st, t, baseCurrency, targetCurrency, e) ==
    LET cacheKey == LatestKey(baseCurrency, targetCurrency)
        rate == CacheGet(st, cacheKey, "ExchangeRate", t, e.getOk)
        ratePtr == ClientGetLatestRate(baseCurrency, targetCurrency, e.up, t)
        set == CacheSet(st, cacheKey, ratePtr.val, LatestTTL, t, e.setOk)
    IN IF rate.ok
       THEN RepoCall("GetLatestRate", cacheKey, st, st, t, e,
                     TRUE, rate.val, NoErr, 1, 0, 0, NoFetch, FALSE, FALSE)
       ELSE IF ~ratePtr.ok
            THEN RepoCall("GetLatestRate", cacheKey, st, st, t, e,
                          FALSE, NoVal, ratePtr.err, 1, 0, 1, ratePtr, TRUE, FALSE)
            ELSE IF ~set.ok
            THEN RepoCall("GetLatestRate", cacheKey, st, set.st, t, e,
                          FALSE, NoVal, Errorf("failed to cache rate", "cache"),
                          1, 1, 1, ratePtr, TRUE, TRUE)
            ELSE RepoCall("GetLatestRate", cacheKey, st, set.st, t, e,
                          TRUE, ratePtr.val, NoErr, 1, 1, 1, ratePtr, TRUE, FALSE)

RepoGetLatestRate(st, t, baseCurrency, targetCurrency, e) ==
    LET cacheKey == LatestKey(baseCurrency, targetCurrency)
        rate == CacheGet(st, cacheKey, "ExchangeRate", t, e.getOk)
        ratePtr == ClientGetLatestRate(baseCurrency, targetCurrency, e.up, t)
        set == CacheSet(st, cacheKey, ratePtr.val, LatestTTL, t, e.setOk)
    IN IF rate.ok
       THEN RepoCall("GetLatestRate", cacheKey, st, st, t, e,
                     TRUE, rate.val, NoErr, 1, 0, 0, NoFetch, FALSE, FALSE)
       ELSE IF ~ratePtr.ok
            THEN RepoCall("GetLatestRate", cacheKey, st, st, t, e,
                          FALSE, NoVal, ratePtr.err, 1, 0, 1, ratePtr, TRUE, FALSE)
            ELSE RepoCall("GetLatestRate", cacheKey, st, set.st, t, e,
                          TRUE, ratePtr.val, NoErr, 1, 1, 1, ratePtr, TRUE, ~set.ok)

\* mutant: the cache is not consulted before the provider
RepoGetHistoricalRate_NoRead(st, t, baseCurrency, targetCurrency, date, e) ==
    LET cacheKey == HistoricalKey(baseCurrency, targetCurrency, date)
        ratePtr == ClientGetHistoricalRate(baseCurrency, targetCurrency, date, e.up, t)
        set == CacheSet(st, cacheKey, ratePtr.val, HistoricalTTL, t, e.setOk)
    IN IF ~ratePtr.ok
       THEN RepoCall("GetHistoricalRate", cacheKey, st, st, t, e,
                     FALSE, NoVal, ratePtr.err, 0, 0, 1, ratePtr, FALSE, FALSE)
       ELSE RepoCall("GetHistoricalRate", cacheKey, st, set.st, t, e,
                     TRUE, ratePtr.val, NoErr, 0, 1, 1, ratePtr, FALSE, ~set.ok)

RepoGetHistoricalRate(st, t, baseCurrency, targetCurrency, date, e) ==
    LET cacheKey == HistoricalKey(baseCurrency, targetCurrency, date)
        rate == CacheGet(st, cacheKey, "HistoricalRate", t, e.getOk)
        ratePtr == ClientGetHistoricalRate(baseCurrency, targetCurrency, date, e.up, t)
        set == CacheSet(st, cacheKey, ratePtr.val, HistoricalTTL, t, e.setOk)
    IN IF rate.ok
       THEN RepoCall("GetHistoricalRate", cacheKey, st, st, t, e,
                     TRUE, rate.val, NoErr, 1, 0, 0, NoFetch, FALSE, FALSE)
       ELSE IF ~ratePtr.ok
            THEN RepoCall("GetHistoricalRate", cacheKey, st, st, t, e,
                          FALSE, NoVal, ratePtr.err, 1, 0, 1, ratePtr, TRUE, FALSE)
            ELSE RepoCall("GetHistoricalRate", cacheKey, st, set.st, t, e,
                          TRUE, ratePtr.val, NoErr, 1, 1, 1, ratePtr, TRUE, ~set.ok)

\* mutant: the fetched list is returned without being cached
RepoGetSupportedCurrencies_NoWrite(st, t, e, order) ==
    LET cacheKey == CurrenciesKey
        cached == CacheGet(st, cacheKey, "Currencies", t, e.getOk)
        currencies == ClientGetSupportedCurrencies(e.up, order)
    IN IF cached.ok
       THEN RepoCall("GetSupportedCurrencies", cacheKey, st, st, t, e,
                     TRUE, cached.val, NoErr, 1, 0, 0, NoFetch, FALSE, FALSE)
       ELSE IF ~currencies.ok
            THEN RepoCall("GetSupportedCurrencies", cacheKey, st, st, t, e,
                          FALSE, NoVal, currencies.err, 1, 0, 1, currencies, TRUE, FALSE)
            ELSE RepoCall("GetSupportedCurrencies", cacheKey, st, st, t, e,
                          TRUE, currencies.val, NoErr, 1, 0, 1, currencies, TRUE, FALSE)

\* mutant: the currency list is cached with the latest-rate expiration
RepoGetSupportedCurrencies_ShortTTL(st, t, e, order) ==
    LET cacheKey == CurrenciesKey
        cached == CacheGet(st, cacheKey, "Currencies", t, e.getOk)
        currencies == ClientGetSupportedCurrencies(e.up, order)
        set == CacheSet(st, cacheKey, currencies.val, LatestTTL, t, e.setOk)
    IN IF cached.ok
       THEN RepoCall("GetSupportedCurrencies", cacheKey, st, st, t, e,
                     TRUE, cached.val, NoErr, 1, 0, 0, NoFetch, FALSE, FALSE)
       ELSE IF ~currencies.ok
            THEN RepoCall("GetSupportedCurrencies", cacheKey, st, st, t, e,
                          FALSE, NoVal, currencies.err, 1, 0, 1, currencies, TRUE, FALSE)
            ELSE RepoCall("GetSupportedCurrencies", cacheKey, st, set.st, t, e,
                          TRUE, currencies.val, NoErr, 1, 1, 1, currencies, TRUE, ~set.ok)

\* mutant: the fetched list is cached before the fetch's error is looked at
RepoGetSupportedCurrencies_CacheFirst(st, t, e, order) ==
    LET cacheKey == CurrenciesKey
        cached == CacheGet(st, cacheKey, "Currencies", t, e.getOk)
        currencies == ClientGetSupportedCurrencies(e.up, order)
        set == CacheSet(st, cacheKey, currencies.val, CurrenciesTTL, t, e.setOk)
    IN IF cached.ok
       THEN RepoCall("GetSupportedCurrencies", cacheKey, st, st, t, e,
                     TRUE, cached.val, NoErr, 1, 0, 0, NoFetch, FALSE, FALSE)
       ELSE IF ~currencies.ok
            THEN RepoCall("GetSupportedCurrencies", cacheKey, st, set.st, t, e,
                          FALSE, NoVal, currencies.err, 1, 1, 1, currencies, TRUE, ~set.ok)
            ELSE RepoCall("GetSupportedCurrencies", cacheKey, st, set.st, t, e,
                          TRUE, currencies.val, NoErr, 1, 1, 1, currencies, TRUE, ~set.ok)

RepoGetSupportedCurrencies(st, t, e, order) ==
    LET cacheKey == CurrenciesKey
        cached == CacheGet(st, cacheKey, "Currencies", t, e.getOk)
        currencies == ClientGetSupportedCurrencies(e.up, order)
        set == CacheSet(st, cacheKey, currencies.val, CurrenciesTTL, t, e.setOk)
    IN IF cached.ok
       THEN RepoCall("GetSupportedCurrencies", cacheKey, st, st, t, e,
                     TRUE, cached.val, NoErr, 1, 0, 0, NoFetch, FALSE, FALSE)
       ELSE IF ~currencies.ok
            THEN RepoCall("GetSupportedCurrencies", cacheKey, st, st, t, e,
                          FALSE, NoVal, currencies.err, 1, 0, 1, currencies, TRUE, FALSE)
            ELSE RepoCall("GetSupportedCurrencies", cacheKey, st, set.st, t, e,
                          TRUE, currencies.val, NoErr, 1, 1, 1, currencies, TRUE, ~set.ok)

\* the provider section of the configuration: as configs.Load fills it, and
\* the zero value of a configuration that names no provider
DefaultBaseURL == <<"https://open.er-api.com/v6">>
LoadedProviderConfig == [Name |-> ProviderName, BaseURL |-> DefaultBaseURL]
ZeroProviderConfig == [Name |-> EmptyString, BaseURL |-> EmptyString]
ProviderConfigs == {LoadedProviderConfig, ZeroProviderConfig}

\* NewRateRepository's override of a provider section naming another provider
OverrideProvider(providerCfg) ==
    IF providerCfg.Name \notin {<<"open.er-api.com">>, <<"openerapi">>}
    THEN [Name |-> <<"open.er-api.com">>,
          BaseURL |-> IF providerCfg.BaseURL = EmptyString THEN DefaultBaseURL
                      ELSE providerCfg.BaseURL]
    ELSE providerCfg

NewOpenERAPIClient(providerCfg) == [name |-> providerCfg.Name, baseURL |-> providerCfg.BaseURL]

\* r.client, set at construction and never assigned again
client == NewOpenERAPIClient(OverrideProvider(config.Providers))

\* NewRateRepository always builds a client, so r.client is never nil
ClientIsNil == FALSE

NoMap == [k \in {} |-> ""]

\* mutant: a failing cache ping ends the check before the provider is probed
RepoHealthCheck_StopAtCache(pingOk, up) ==
    LET pingErr == ~CachePing(pingOk)
        withCache == Put(NoMap, <<"cache">>, IF pingErr THEN "unhealthy" ELSE "healthy")
        healthErr == ClientHealthCheck(up)
        providers ==
            IF pingErr THEN withCache
            ELSE Put(withCache, client.name,
                     IF ~IsNil(healthErr) THEN "unhealthy" ELSE "healthy")
    IN [providers |-> providers, err |-> NoErr, pings |-> 1,
        probes |-> IF pingErr THEN 0 ELSE 1,
        pingErr |-> pingErr, healthErr |-> ~pingErr /\ ~IsNil(healthErr)]

\* the health map: the cache's status and the provider's, each from its own probe
RepoHealthCheck(pingOk, up) ==
    LET pingErr == ~CachePing(pingOk)
        withCache == Put(NoMap, <<"cache">>, IF pingErr THEN "unhealthy" ELSE "healthy")
        healthErr == ClientHealthCheck(up)
        providers ==
            IF ~ClientIsNil
            THEN Put(withCache, client.name,
                     IF ~IsNil(healthErr) THEN "unhealthy" ELSE "healthy")
            ELSE Put(withCache, <<"open.er-api.com">>, "unconfigured")
    IN [providers |-> providers, err |-> NoErr, pings |-> 1,
        probes |-> IF ~ClientIsNil THEN 1 ELSE 0,
        pingErr |-> pingErr, healthErr |-> ~ClientIsNil /\ ~IsNil(healthErr)]

(***************************************************************************)
(* Service layer (service: exchangeService)                                *)
(***************************************************************************)
\* mutant: equal currencies are let through
validateCurrencies_NoSameCheck(baseCurrency, targetCurrency) ==
    IF baseCurrency = EmptyString
    THEN NewValidationError("base currency is required", "base_currency cannot be empty")
    ELSE IF targetCurrency = EmptyString
    THEN NewValidationError("target currency is required", "target_currency cannot be empty")
    ELSE NoErr

validateCurrencies(baseCurrency, targetCurrency) ==
    IF baseCurrency = EmptyString
    THEN NewValidationError("base currency is required", "base_currency cannot be empty")
    ELSE IF targetCurrency = EmptyString
    THEN NewValidationError("target currency is required", "target_currency cannot be empty")
    ELSE IF baseCurrency = targetCurrency
    THEN NewValidationError("currencies must be different",
                            "base_currency and target_currency cannot be the same")
    ELSE NoErr

\* mutant: only a negative amount is refused
validateConversionRequest_NonNegative(req) ==
    IF req.FromCurrency = EmptyString
    THEN NewValidationError("from currency is required", "from_currency cannot be empty")
    ELSE IF req.ToCurrency = EmptyString
    THEN NewValidationError("to currency is required", "to_currency cannot be empty")
    ELSE IF req.Amount < 0
    THEN NewValidationError("amount must be positive", "amount must be greater than 0")
    ELSE IF req.FromCurrency = req.ToCurrency
    THEN NewValidationError("currencies must be different",
                            "from_currency and to_currency cannot be the same")
    ELSE NoErr

validateConversionRequest(req) ==
    IF req.FromCurrency = EmptyString
    THEN NewValidationError("from currency is required", "from_currency cannot be empty")
    ELSE IF req.ToCurrency = EmptyString
    THEN NewValidationError("to currency is required", "to_currency cannot be empty")
    ELSE IF req.Amount <= 0
    THEN NewValidationError("amount must be positive", "amount must be greater than 0")
    ELSE IF req.FromCurrency = req.ToCurrency
    THEN NewValidationError("currencies must be different",
                            "from_currency and to_currency cannot be the same")
    ELSE NoErr

\* a date string: the layout it is written in and the day it names; the empty
\* string has layout "", a string no layout parses has layout "bad"
NoDate == [layout |-> "", day |-> 0]
BadDate == [layout |-> "bad", day |-> 0]
Layouts == <<"2006-01-02", "2006/01/02", "02-01-2006", "02/01/2006">>

\* time.Parse(layout, s)
TimeParse(layout, s) ==
    IF s.layout = layout THEN [ok |-> TRUE, day |-> s.day] ELSE [ok |-> FALSE, day |-> 0]

\* what a service call returns: the store after it, the result, the
\* repository calls it made
SvcResult(st, ok, val, err, calls) ==
    [st |-> st, ok |-> ok, val |-> val, err |-> err, calls |-> calls]

SvcGetLatestRate(st, t, baseCurrency, targetCurrency, e) ==
    LET verr == validateCurrencies(baseCurrency, targetCurrency)
        r == RepoGetLatestRate(st, t, baseCurrency, targetCurrency, e)
    IN IF ~IsNil(verr) THEN SvcResult(st, FALSE, NoVal, verr, <<>>)
       ELSE IF ~r.call.ok THEN SvcResult(r.st, FALSE, NoVal, r.call.err, <<r.call>>)
       ELSE SvcResult(r.st, TRUE, r.call.val, NoErr, <<r.call>>)

SvcGetHistoricalRate(st, t, baseCurrency, targetCurrency, date, e) ==
    LET verr == validateCurrencies(baseCurrency, targetCurrency)
        r == RepoGetHistoricalRate(st, t, baseCurrency, targetCurrency, date, e)
    IN IF ~IsNil(verr) THEN SvcResult(st, FALSE, NoVal, verr, <<>>)
       ELSE IF ~r.call.ok THEN SvcResult(r.st, FALSE, NoVal, r.call.err, <<r.call>>)
       ELSE SvcResult(r.st, TRUE, r.call.val, NoErr, <<r.call>>)

SvcGetSupportedCurrencies(st, t, e, order) ==
    LET r == RepoGetSupportedCurrencies(st, t, e, order)
    IN IF ~r.call.ok THEN SvcResult(r.st, FALSE, NoVal, r.call.err, <<r.call>>)
       ELSE SvcResult(r.st, TRUE, r.call.val, NoErr, <<r.call>>)

ConversionRequest(from, to, amount, date) ==
    [FromCurrency |-> from, ToCurrency |-> to, Amount |-> amount, Date |-> date]

ConversionResponse(from, to, amount, convertedAmount, rate, provider, fetchedAt) ==
    [shape |-> "ConversionResponse", FromCurrency |-> from, ToCurrency |-> to,
     Amount |-> amount, ConvertedAmount |-> convertedAmount, Rate |-> rate,
     Provider |-> provider, FetchedAt |-> fetchedAt]

\* mutant: the conversion response is written to the cache
SvcConvertCurrency_CachesResponse(st, t, req, e) ==
    LET verr == validateConversionRequest(req)
        date == TimeParse(Layouts[1], req.Date)
        r == IF req.Date # NoDate
             THEN RepoGetHistoricalRate(st, t, req.FromCurrency, req.ToCurrency, date.day, e)
             ELSE RepoGetLatestRate(st, t, req.FromCurrency, req.ToCurrency, e)
        rate == r.call.val
        response == ConversionResponse(req.FromCurrency, req.ToCurrency, req.Amount,
                                       req.Amount * rate.Rate, rate.Rate, rate.Provider,
                                       rate.FetchedAt)
        set == CacheSet(r.st, <<"convert", ":">> \o req.FromCurrency \o <<":">> \o req.ToCurrency,
                        response, LatestTTL, t, e.setOk)
    IN IF ~IsNil(verr) THEN SvcResult(st, FALSE, NoVal, verr, <<>>)
       ELSE IF req.Date # NoDate /\ ~date.ok
       THEN SvcResult(st, FALSE, NoVal,
                      NewValidationError("invalid date format",
                                         "date must be in YYYY-MM-DD format"), <<>>)
       ELSE IF ~r.call.ok THEN SvcResult(r.st, FALSE, NoVal, r.call.err, <<r.call>>)
       ELSE SvcResult(set.st, TRUE, response, NoErr, <<r.call>>)

\* mutant: the response is stamped with the time of the conversion
SvcConvertCurrency_StampNow(st, t, req, e) ==
    LET verr == validateConversionRequest(req)
        date == TimeParse(Layouts[1], req.Date)
        r == IF req.Date # NoDate
             THEN RepoGetHistoricalRate(st, t, req.FromCurrency, req.ToCurrency, date.day, e)
             ELSE RepoGetLatestRate(st, t, req.FromCurrency, req.ToCurrency, e)
        rate == r.call.val
        rateValue == rate.Rate
        provider == rate.Provider
        fetchedAt == t
        convertedAmount == req.Amount * rateValue
    IN IF ~IsNil(verr) THEN SvcResult(st, FALSE, NoVal, verr, <<>>)
       ELSE IF req.Date # NoDate /\ ~date.ok
       THEN SvcResult(st, FALSE, NoVal,
                      NewValidationError("invalid date format",
                                         "date must be in YYYY-MM-DD format"), <<>>)
       ELSE IF ~r.call.ok THEN SvcResult(r.st, FALSE, NoVal, r.call.err, <<r.call>>)
       ELSE SvcResult(r.st, TRUE,
                      ConversionResponse(req.FromCurrency, req.ToCurrency, req.Amount,
                                         convertedAmount, rateValue, provider, fetchedAt),
                      NoErr, <<r.call>>)

\* mutant: the rate is always the latest one, whatever the request's date
SvcConvertCurrency_AlwaysLatest(st, t, req, e) ==
    LET verr == validateConversionRequest(req)
        date == TimeParse(Layouts[1], req.Date)
        r == RepoGetLatestRate(st, t, req.FromCurrency, req.ToCurrency, e)
        rate == r.call.val
    IN IF ~IsNil(verr) THEN SvcResult(st, FALSE, NoVal, verr, <<>>)
       ELSE IF req.Date # NoDate /\ ~date.ok
       THEN SvcResult(st, FALSE, NoVal,
                      NewValidationError("invalid date format",
                                         "date must be in YYYY-MM-DD format"), <<>>)
       ELSE IF ~r.call.ok THEN SvcResult(r.st, FALSE, NoVal, r.call.err, <<r.call>>)
       ELSE SvcResult(r.st, TRUE,
                      ConversionResponse(req.FromCurrency, req.ToCurrency, req.Amount,
                                         req.Amount * rate.Rate, rate.Rate, rate.Provider,
                                         rate.FetchedAt),
                      NoErr, <<r.call>>)

SvcConvertCurrency(st, t, req, e) ==
    LET verr == validateConversionRequest(req)
        date == TimeParse(Layouts[1], req.Date)
        r == IF req.Date # NoDate
             THEN RepoGetHistoricalRate(st, t, req.FromCurrency, req.ToCurrency, date.day, e)
             ELSE RepoGetLatestRate(st, t, req.FromCurrency, req.ToCurrency, e)
        rate == r.call.val
        rateValue == rate.Rate
        provider == rate.Provider
        fetchedAt == rate.FetchedAt
        convertedAmount == req.Amount * rateValue
    IN IF ~IsNil(verr) THEN SvcResult(st, FALSE, NoVal, verr, <<>>)
       ELSE IF req.Date # NoDate /\ ~date.ok
       THEN SvcResult(st, FALSE, NoVal,
                      NewValidationError("invalid date format",
                                         "date must be in YYYY-MM-DD format"), <<>>)
       ELSE IF ~r.call.ok THEN SvcResult(r.st, FALSE, NoVal, r.call.err, <<r.call>>)
       ELSE SvcResult(r.st, TRUE,
                      ConversionResponse(req.FromCurrency, req.ToCurrency, req.Amount,
                                         convertedAmount, rateValue, provider, fetchedAt),
                      NoErr, <<r.call>>)

HealthResponse(status, providers, cacheField) ==
    [shape |-> "HealthResponse", Status |-> status, Providers |-> providers,
     Cache |-> cacheField]

\* mutant: an unhealthy dependency makes the check itself fail
SvcHealthCheck_FailsWhenUnhealthy(pingOk, up) ==
    LET h == RepoHealthCheck(pingOk, up)
    IN IF ~IsNil(h.err) \/ h.pingErr \/ h.healthErr
       THEN [ok |-> FALSE, val |-> NoVal, err |-> Errorf("health check failed", ""), repo |-> h]
       ELSE [ok |-> TRUE, val |-> HealthResponse("healthy", h.providers, "connected"),
             err |-> NoErr, repo |-> h]

SvcHealthCheck(pingOk, up) ==
    LET h == RepoHealthCheck(pingOk, up)
    IN IF ~IsNil(h.err)
       THEN [ok |-> FALSE, val |-> NoVal, err |-> h.err, repo |-> h]
       ELSE [ok |-> TRUE, val |-> HealthResponse("healthy", h.providers, "connected"),
             err |-> NoErr, repo |-> h]

(***************************************************************************)
(* Time-series entry points                                                *)
(***************************************************************************)
\* transport.parseDate: the first of the four layouts that parses
parseDate(dateStr) ==
    IF dateStr = NoDate THEN [ok |-> FALSE, day |-> 0, err |-> Errorf("date string is empty", "")]
    ELSE IF \E i \in DOMAIN Layouts : TimeParse(Layouts[i], dateStr).ok
    THEN [ok |-> TRUE, day |-> dateStr.day, err |-> NoErr]
    ELSE [ok |-> FALSE, day |-> 0, err |-> Errorf("invalid date format", "")]

HistEnv(getOk) == [getOk |-> getOk, setOk |-> TRUE, up |-> NoUpstream]

\* the response of the go-kit endpoint: the error is carried in the body
RatesResponse(rates, errText, calls, st) ==
    [st |-> st, ok |-> errText = "", val |-> [shape |-> "GetHistoricalRatesResponse",
                                              Rates |-> rates, Error |-> errText],
     err |-> NoErr, calls |-> calls]

\* the loop of makeGetHistoricalRatesEndpoint from day d on: stop at the first error
RECURSIVE HistoricalRatesFrom(_, _, _, _, _, _, _, _, _)
HistoricalRatesFrom(st, t, from, to, d, end, getOks, rates, calls) ==
    IF d > end THEN RatesResponse(rates, "", calls, st)
    ELSE LET r == SvcGetHistoricalRate(st, t, from, to, d, HistEnv(getOks[d]))
         IN IF ~r.ok
            THEN RatesResponse(<<>>, r.err.message, calls \o r.calls, r.st)
            ELSE HistoricalRatesFrom(r.st, t, from, to, d + 1, end, getOks,
                                     Append(rates, r.val), calls \o r.calls)

\* mutant: the order of the two dates is not checked
GetHistoricalRatesEndpoint_NoOrderCheck(st, t, req, getOks) ==
    LET start == parseDate(req.StartDate)
        end == parseDate(req.EndDate)
    IN IF ~start.ok THEN RatesResponse(<<>>, start.err.message, <<>>, st)
       ELSE IF ~end.ok THEN RatesResponse(<<>>, end.err.message, <<>>, st)
       ELSE HistoricalRatesFrom(st, t, req.From, req.To, start.day, end.day, getOks,
                                <<>>, <<>>)

\* mutant: the loop leaves out the end date
GetHistoricalRatesEndpoint_EndExclusive(st, t, req, getOks) ==
    LET start == parseDate(req.StartDate)
        end == parseDate(req.EndDate)
    IN IF ~start.ok THEN RatesResponse(<<>>, start.err.message, <<>>, st)
       ELSE IF ~end.ok THEN RatesResponse(<<>>, end.err.message, <<>>, st)
       ELSE IF end.day < start.day
       THEN RatesResponse(<<>>, "end_date must be after start_date", <<>>, st)
       ELSE HistoricalRatesFrom(st, t, req.From, req.To, start.day, end.day - 1, getOks,
                                <<>>, <<>>)

GetHistoricalRatesEndpoint(st, t, req, getOks) ==
    LET start == parseDate(req.StartDate)
        end == parseDate(req.EndDate)
    IN IF ~start.ok THEN RatesResponse(<<>>, start.err.message, <<>>, st)
       ELSE IF ~end.ok THEN RatesResponse(<<>>, end.err.message, <<>>, st)
       ELSE IF end.day < start.day
       THEN RatesResponse(<<>>, "end_date must be after start_date", <<>>, st)
       ELSE HistoricalRatesFrom(st, t, req.From, req.To, start.day, end.day, getOks,
                                <<>>, <<>>)

\* the answer of an api handler: the HTTP status and the data written
HandlerResponse(status, rates, calls, st) ==
    [st |-> st, ok |-> status = StatusOK,
     val |-> [shape |-> "TimeSeries", Rates |-> rates, Count |-> Len(rates), Status |-> status],
     err |-> NoErr, calls |-> calls]

\* the loop of Handlers.GetTimeSeries from day d on: a failing date is skipped
RECURSIVE TimeSeriesFrom(_, _, _, _, _, _, _, _, _)
TimeSeriesFrom(st, t, base, target, d, end, getOks, rates, calls) ==
    IF d > end THEN HandlerResponse(StatusOK, rates, calls, st)
    ELSE LET r == SvcGetHistoricalRate(st, t, base, target, d, HistEnv(getOks[d]))
         IN TimeSeriesFrom(r.st, t, base, target, d + 1, end, getOks,
                           IF r.ok THEN Append(rates, r.val) ELSE rates,
                           calls \o r.calls)

HandlersGetTimeSeries(st, t, req, getOks) ==
    LET startDate == TimeParse(Layouts[1], req.StartDate)
        endDate == TimeParse(Layouts[1], req.EndDate)
    IN IF req.StartDate = NoDate \/ req.EndDate = NoDate
       THEN HandlerResponse(StatusBadRequest, <<>>, <<>>, st)
       ELSE IF ~startDate.ok THEN HandlerResponse(StatusBadRequest, <<>>, <<>>, st)
       ELSE IF ~endDate.ok THEN HandlerResponse(StatusBadRequest, <<>>, <<>>, st)
       ELSE IF startDate.day > endDate.day
       THEN HandlerResponse(StatusBadRequest, <<>>, <<>>, st)
       ELSE TimeSeriesFrom(st, t, req.From, req.To, startDate.day, endDate.day, getOks,
                           <<>>, <<>>)

(***************************************************************************)
(* HTTP layer (api: NewRouter and Handlers; transport: the go-kit servers)  *)
(* Each operator maps what the service returned to the answer written.      *)
(***************************************************************************)
HTTPResponse(status, success) == [status |-> status, success |-> success]

\* the endpoint makers: the service's error goes into the Error field of the
\* response and the endpoint itself returns a nil error
MakeEndpoints(r) ==
    IF ~IsNil(r.err) THEN [ok |-> TRUE, Value |-> NoVal, Error |-> r.err.message]
    ELSE [ok |-> TRUE, Value |-> r.val, Error |-> ""]

\* transport.encodeResponse sets no status: the server answers 200 with the
\* response as its body
encodeResponse(response) == HTTPResponse(StatusOK, response.Error = "")

\* Handlers.GetHistoricalRate, for a date the path parsed
HandlersGetHistoricalRate(r) ==
    IF ~IsNil(r.err)
    THEN IF IsValidationError(r.err) THEN HTTPResponse(StatusBadRequest, FALSE)
         ELSE HTTPResponse(StatusInternalServerError, FALSE)
    ELSE HTTPResponse(StatusOK, TRUE)

\* Handlers.HealthCheck
HandlersHealthCheck(r) ==
    IF ~IsNil(r.err) THEN HTTPResponse(StatusInternalServerError, FALSE)
    ELSE HTTPResponse(StatusOK, TRUE)

\* the routes NewRouter registers: what the caller of the completed
\* operation l is answered
NewRouter(l) ==
    CASE l.op = "HealthCheck" -> HandlersHealthCheck(l)
      [] l.op = "GetHistoricalRate" -> HandlersGetHistoricalRate(l)
      [] l.op = "GetHistoricalRates" -> encodeResponse(l.val)
      [] OTHER -> encodeResponse(MakeEndpoints(l))

(***************************************************************************)
(* History kept for the properties                                         *)
(***************************************************************************)
NoFirst == [at |-> -1, stored |-> FALSE, ttl |-> 0]

NoFirstCalls == [k \in {} |-> NoFirst]

NoSeen == [k \in {} |-> NoVal]

FirstOf(fc, calls) ==
    IF calls # <<>> /\ calls[1].key \in DOMAIN fc THEN fc[calls[1].key] ELSE NoFirst

\* a latest-rate call that found its key absent is a first call against a
\* cold cache; so is a currency-list call that missed and fetched the list;
\* stored tells whether it left an entry behind, ttl how long the entry lasts
NoteFirst(fc, calls, t) ==
    IF calls # <<>> /\ calls[1].fn = "GetLatestRate" /\ calls[1].cold
    THEN Put(fc, calls[1].key, [at |-> t, stored |-> calls[1].changed, ttl |-> LatestTTL])
    ELSE IF /\ calls # <<>> /\ calls[1].fn = "GetSupportedCurrencies"
            /\ calls[1].getErr /\ calls[1].fetched.ok
    THEN Put(fc, calls[1].key, [at |-> t, stored |-> calls[1].changed, ttl |-> CurrenciesTTL])
    ELSE fc

\* the first value each historical key was answered with
RECURSIVE NoteSeen(_, _)
NoteSeen(sn, calls) ==
    IF calls = <<>> THEN sn
    ELSE LET c == Head(calls)
         IN NoteSeen(IF c.fn = "GetHistoricalRate" /\ c.ok /\ c.key \notin DOMAIN sn
                     THEN Put(sn, c.key, c.val) ELSE sn,
                     Tail(calls))

NoArgs ==
    [base |-> EmptyString, target |-> EmptyString, day |-> 0, amount |-> 0,
     date |-> NoDate, endDate |-> NoDate]

Args(base, target, day, amount, date, endDate) ==
    [base |-> base, target |-> target, day |-> day, amount |-> amount,
     date |-> date, endDate |-> endDate]

\* the context a call is made with.  point: the call in flight when the
\* context is cancelled ("none": it never is; "before": it is cancelled when
\* the operation starts); done: the cache command in flight had reached the
\* store when the cancellation was noticed
Background == [point |-> "none", done |-> FALSE]

\* the record of a completed operation
\* first: the first call the operation's key had in the window before it;
\* again: whether its key had been answered before; pings, probes, pingErr,
\* healthErr and connPing (whether the networked cache could be reached when
\* it was pinged) are those of a health check
Completed(op, args, r, first, again) ==
    [op |-> op, args |-> args, ok |-> r.ok, val |-> r.val, err |-> r.err,
     calls |-> r.calls, first |-> first, again |-> again, at |-> now,
     pings |-> 0, probes |-> 0, pingErr |-> FALSE, healthErr |-> FALSE, connPing |-> TRUE,
     ctx |-> Background]

(***************************************************************************)
(* State machine                                                           *)
(***************************************************************************)
\* what the networked store may hold when the process starts: nothing, or
\* historical rates left by an earlier writer and still unexpired
SeedRate(day) ==
    [bytes |-> Marshal(HistoricalRate(USD, EUR, 92, day, ProviderName, 0 - 1434)),
     exp |-> LatestTTL]

\* an entry whose rate field does not decode as a number
Mistyped(entry) == [entry EXCEPT !.bytes.mistyped = {"rate"}]

SeedLatest ==
    [bytes |-> Marshal(ExchangeRate(USD, EUR, 92, ProviderName, 0 - 1434)), exp |-> LatestTTL]

\* nothing; or historical rates for days 1 and 2, and entries that do not
\* decode: a historical rate for day 3, a latest rate, and a rate object
\* where the currency list is expected
SeedStores ==
    {[k \in {} |-> SeedRate(1)],
     [k \in {HistoricalKey(USD, EUR, 1), HistoricalKey(USD, EUR, 2),
              HistoricalKey(USD, EUR, 3), LatestKey(USD, EUR), CurrenciesKey} |->
        CASE k = HistoricalKey(USD, EUR, 1) -> SeedRate(1)
          [] k = HistoricalKey(USD, EUR, 2) -> SeedRate(2)
          [] k = HistoricalKey(USD, EUR, 3) -> Mistyped(SeedRate(3))
          [] k = LatestKey(USD, EUR) -> Mistyped(SeedLatest)
          [] OTHER -> SeedLatest]}

\* no operation has completed that the caller has not taken the answer of
NoCall ==
    [op |-> "none", args |-> NoArgs, ok |-> FALSE, val |-> NoVal, err |-> NoErr,
     calls |-> <<>>, first |-> NoFirst, again |-> FALSE, at |-> 0,
     pings |-> 0, probes |-> 0, pingErr |-> FALSE, healthErr |-> FALSE, connPing |-> TRUE,
     ctx |-> Background]

\* the requests in flight
Procs == 1..NProcs

NoReturn == [ok |-> FALSE, val |-> NoVal, err |-> NoErr, at |-> -1, fromCache |-> FALSE]

\* pc: where the request stands; cold: its read found no live entry; fetched:
\* what its provider request returned; wroteAt: when its write reached the
\* networked store; ret: what it returned, and when
IdleProc ==
    [pc |-> "idle", base |-> EmptyString, target |-> EmptyString, cold |-> FALSE,
     fetched |-> NoFetch, wroteAt |-> -1, ret |-> NoReturn]

\* NewRateRepository: the networked cache if it answers the ping at start-up,
\* the in-process fallback otherwise
NewRateRepository(redisUp) == IF redisUp THEN "redis" ELSE "memory"

\* the state after construction from a configuration whose provider section
\* is one of cfgs
InitWith(cfgs) ==
    /\ config \in [Providers : cfgs]
    /\ \E redisUp \in BOOLEAN : cache = NewRateRepository(redisUp)
    /\ store \in (IF cache = "redis" THEN SeedStores ELSE {[k \in {} |-> SeedRate(1)]})
    /\ now = 0
    /\ ticks = 0
    /\ firstCall = NoFirstCalls
    /\ seen = NoSeen
    /\ last = NoCall
    /\ procs = [p \in Procs |-> IdleProc]

\* the process as main starts it: the configuration is the one configs.Load fills
Init == InitWith({LoadedProviderConfig})

\* the repository built from any configuration
InitAnyConfig == InitWith(ProviderConfigs)

\* time passes; expired keys leave the store
Tick(d) ==
    /\ last = NoCall
    /\ ticks < MaxTicks
    /\ ticks' = ticks + 1
    /\ now' = now + d
    /\ store' = Live(store, now')
    /\ firstCall' = [k \in {x \in DOMAIN firstCall : now' < firstCall[x].at + firstCall[x].ttl} |->
                       firstCall[k]]
    /\ UNCHANGED <<config, cache, seen, last, procs>>

Record(op, args, r) ==
    /\ last = NoCall
    /\ store' = r.st
    /\ firstCall' = NoteFirst(firstCall, r.calls, now)
    /\ seen' = NoteSeen(seen, r.calls)
    /\ last' = Completed(op, args, r, FirstOf(firstCall, r.calls),
                         r.calls # <<>> /\ r.calls[1].key \in DOMAIN seen)
    /\ UNCHANGED <<config, cache, now, ticks, procs>>

GetLatestRate(base, target, e) ==
    Record("GetLatestRate", Args(base, target, 0, 0, NoDate, NoDate),
           SvcGetLatestRate(store, now, base, target, e))

GetHistoricalRate(base, target, day, e) ==
    Record("GetHistoricalRate", Args(base, target, day, 0, NoDate, NoDate),
           SvcGetHistoricalRate(store, now, base, target, day, e))

GetSupportedCurrencies(e, order) ==
    Record("GetSupportedCurrencies", NoArgs,
           SvcGetSupportedCurrencies(store, now, e, order))

ConvertCurrency(req, e) ==
    Record("ConvertCurrency",
           Args(req.FromCurrency, req.ToCurrency, 0, req.Amount, req.Date, NoDate),
           SvcConvertCurrency(store, now, req, e))

GetHistoricalRates(req, getOks) ==
    Record("GetHistoricalRates",
           Args(req.From, req.To, 0, 0, req.StartDate, req.EndDate),
           GetHistoricalRatesEndpoint(store, now, req, getOks))

GetTimeSeries(req, getOks) ==
    Record("GetTimeSeries",
           Args(req.From, req.To, 0, 0, req.StartDate, req.EndDate),
           HandlersGetTimeSeries(store, now, req, getOks))

HealthCheck(pingOk, up) ==
    LET h == SvcHealthCheck(pingOk, up)
    IN /\ last = NoCall
       /\ last' = [op |-> "HealthCheck", args |-> NoArgs, ok |-> h.ok, val |-> h.val,
                   err |-> h.err, calls |-> <<>>, first |-> NoFirst, again |-> FALSE,
                   at |-> now, pings |-> h.repo.pings, probes |-> h.repo.probes,
                   pingErr |-> h.repo.pingErr, healthErr |-> h.repo.healthErr,
                   connPing |-> pingOk, ctx |-> Background]
       /\ UNCHANGED <<config, cache, store, now, ticks, firstCall, seen, procs>>

\* the caller takes the answer of the completed operation
Return ==
    /\ last # NoCall
    /\ last' = NoCall
    /\ UNCHANGED <<config, cache, store, now, ticks, firstCall, seen, procs>>

(***************************************************************************)
(* Concurrent requests: rateRepository.GetLatestRate taken one call at a    *)
(* time (the cache read, the provider request, the cache write), so that    *)
(* requests interleave and time passes between the calls of one request.    *)
(***************************************************************************)
\* r.cache.Get(ctx, cacheKey, &rate)
StepGet(st, t, key, connOk) == CacheGet(st, key, "ExchangeRate", t, connOk)

\* r.client.GetLatestRate(ctx, baseCurrency, targetCurrency)
StepFetch(base, target, up, t) == ClientGetLatestRate(base, target, up, t)

\* mutant: the latest rate is cached for a day
StepSet_LongTTL(st, t, key, value, connOk) ==
    CacheSet(st, key, value, HistoricalTTL, t, connOk)

\* r.cache.Set(ctx, cacheKey, ratePtr, 5*time.Minute)
StepSet(st, t, key, value, connOk) ==
    CacheSet(st, key, value, LatestTTL, t, connOk)

\* mutant: after the write the request answers with what the cache then holds
StepReturn_FromCache(st, t, key, ratePtr) ==
    IF key \in DOMAIN Live(st, t)
    THEN Unmarshal(st[key].bytes, "ExchangeRate").val
    ELSE ratePtr.val

\* return ratePtr, nil: the value the request fetched itself
StepReturn(st, t, key, ratePtr) ==
    ratePtr.val

\* a request enters GetLatestRate
Begin(p, base, target) ==
    /\ procs[p].pc = "idle"
    /\ procs' = [procs EXCEPT ![p].pc = "get", ![p].base = base, ![p].target = target]
    /\ UNCHANGED <<config, cache, store, now, ticks, firstCall, seen, last>>

\* the cache read: a hit is returned at once
ReadCache(p, connOk) ==
    LET key == LatestKey(procs[p].base, procs[p].target)
        rate == StepGet(store, now, key, connOk)
    IN /\ procs[p].pc = "get"
       /\ procs' = [procs EXCEPT ![p] =
                      IF rate.ok
                      THEN [@ EXCEPT !.pc = "done",
                                     !.ret = [ok |-> TRUE, val |-> rate.val, err |-> NoErr,
                                              at |-> now, fromCache |-> TRUE]]
                      ELSE [@ EXCEPT !.pc = "fetch",
                                     !.cold = key \notin DOMAIN Live(store, now)]]
       /\ UNCHANGED <<config, cache, store, now, ticks, firstCall, seen, last>>

\* the provider request: a failure is returned at once
Fetch(p, up) ==
    LET ratePtr == StepFetch(procs[p].base, procs[p].target, up, now)
    IN /\ procs[p].pc = "fetch"
       /\ procs' = [procs EXCEPT ![p] =
                      IF ~ratePtr.ok
                      THEN [@ EXCEPT !.pc = "done", !.fetched = ratePtr,
                                     !.ret = [ok |-> FALSE, val |-> NoVal, err |-> ratePtr.err,
                                              at |-> now, fromCache |-> FALSE]]
                      ELSE [@ EXCEPT !.pc = "set", !.fetched = ratePtr]]
       /\ UNCHANGED <<config, cache, store, now, ticks, firstCall, seen, last>>

\* the cache write, whose failure is only logged, and the return
WriteCache(p, connOk) ==
    LET key == LatestKey(procs[p].base, procs[p].target)
        set == StepSet(store, now, key, procs[p].fetched.val, connOk)
    IN /\ procs[p].pc = "set"
       /\ store' = set.st
       /\ procs' = [procs EXCEPT ![p] =
                      [@ EXCEPT !.pc = "done",
                                !.wroteAt = IF cache = "redis" /\ set.ok THEN now ELSE -1,
                                !.ret = [ok |-> TRUE,
                                         val |-> StepReturn(set.st, now, key, procs[p].fetched),
                                         err |-> NoErr, at |-> now, fromCache |-> FALSE]]]
       /\ UNCHANGED <<config, cache, now, ticks, firstCall, seen, last>>

\* the pairs concurrent requests ask for
ConcurrentPairs == {<<USD, EUR>>}

\* the provider's answers to them: unreachable, or an answer with or without
\* the target's rate
ConcurrentResponses == {up \in UpResponses : up.neterr \/ up.result = "success"}

NextConcurrent ==
    \/ \E d \in TickSteps : Tick(d)
    \/ \E p \in Procs, pair \in ConcurrentPairs : Begin(p, pair[1], pair[2])
    \/ \E p \in Procs, connOk \in BOOLEAN : ReadCache(p, connOk)
    \/ \E p \in Procs, up \in ConcurrentResponses : Fetch(p, up)
    \/ \E p \in Procs, connOk \in BOOLEAN : WriteCache(p, connOk)

\* the inputs the operations are tried on.  A request that fails validation
\* reaches no dependency, and a historical lookup reaches no upstream, so one
\* environment stands for all of them there.
QuietEnv == HistEnv(TRUE)
HistEnvs == {HistEnv(g) : g \in BOOLEAN}
LatestEnvs(b, t) == IF IsNil(validateCurrencies(b, t)) THEN Envs ELSE {QuietEnv}
HistoricalEnvs(b, t) == IF IsNil(validateCurrencies(b, t)) THEN HistEnvs ELSE {QuietEnv}
\* and one day for all the days of a request that fails validation
HistoricalDays(b, t) == IF IsNil(validateCurrencies(b, t)) THEN Days ELSE {1}
ConversionEnvs(req) ==
    IF ~IsNil(validateConversionRequest(req)) THEN {QuietEnv}
    ELSE IF req.Date = NoDate THEN Envs ELSE HistEnvs
DateStrings ==
    {[layout |-> Layouts[1], day |-> d] : d \in Days}
    \cup {[layout |-> Layouts[4], day |-> 1], NoDate, BadDate}
ConversionRequests ==
    {ConversionRequest(f, t, a, d) :
       f \in Currencies, t \in Currencies, a \in Amounts,
       d \in {NoDate, BadDate, [layout |-> Layouts[1], day |-> 1],
              [layout |-> Layouts[4], day |-> 1]}}
RangeRequests ==
    {[From |-> p[1], To |-> p[2], StartDate |-> s, EndDate |-> e] :
       p \in {<<USD, EUR>>, <<EUR, USD>>, <<USD, USD>>},
       s \in DateStrings, e \in DateStrings}
\* whether the cache answers, for each day of the range
RangeGetOks(req) ==
    IF req.StartDate.day = 0 \/ req.EndDate.day = 0
    THEN {[d \in {} |-> TRUE]}
    ELSE [req.StartDate.day .. req.EndDate.day -> BOOLEAN]

\* the coordinator's operations as the service layer exposes them
Next ==
    \/ \E d \in TickSteps : Tick(d)
    \/ \E b \in Currencies, t \in Currencies : \E e \in LatestEnvs(b, t) :
         GetLatestRate(b, t, e)
    \/ \E b \in Currencies, t \in Currencies : \E d \in HistoricalDays(b, t), e \in HistoricalEnvs(b, t) :
         GetHistoricalRate(b, t, d, e)
    \/ \E e \in Envs, o \in CodeOrders : GetSupportedCurrencies(e, o)
    \/ \E p \in BOOLEAN, up \in UpResponses : HealthCheck(p, up)
    \/ Return

Spec == Init /\ [][Next]_vars

\* conversions
NextConvert ==
    \/ \E d \in TickSteps : Tick(d)
    \/ \E req \in ConversionRequests : \E e \in ConversionEnvs(req) : ConvertCurrency(req, e)
    \/ Return

SpecConvert == Init /\ [][NextConvert]_vars

\* date-range lookups: the routed go-kit endpoint and the api handler
NextSeries ==
    \/ \E d \in TickSteps : Tick(d)
    \/ \E req \in RangeRequests : \E g \in RangeGetOks(req) : GetHistoricalRates(req, g)
    \/ \E req \in RangeRequests : \E g \in RangeGetOks(req) : GetTimeSeries(req, g)
    \/ Return

SpecSeries == Init /\ [][NextSeries]_vars

\* conversions that pass validation
ValidConversionRequests ==
    {req \in ConversionRequests : IsNil(validateConversionRequest(req)) /\ req.Amount = 3}

\* every operation that can reach the cache, and the health check; a key does
\* not depend on the time, which passes here only to let every entry expire
NextKeys ==
    \/ Tick(HistoricalTTL)
    \/ \E b \in Currencies, t \in Currencies : \E e \in LatestEnvs(b, t) :
         GetLatestRate(b, t, e)
    \/ \E b \in Currencies, t \in Currencies : \E d \in HistoricalDays(b, t), e \in HistoricalEnvs(b, t) :
         GetHistoricalRate(b, t, d, e)
    \/ \E e \in Envs, o \in CodeOrders : GetSupportedCurrencies(e, o)
    \/ \E p \in BOOLEAN, up \in UpResponses : HealthCheck(p, up)
    \/ \E req \in ValidConversionRequests : \E e \in ConversionEnvs(req) : ConvertCurrency(req, e)
    \/ Return

SpecKeys == Init /\ [][NextKeys]_vars

SpecConcurrent == Init /\ [][NextConcurrent]_vars

\* health checks and latest rates of a repository built from any configuration
NextHealth ==
    \/ \E d \in TickSteps : Tick(d)
    \/ \E p \in BOOLEAN, up \in UpResponses : HealthCheck(p, up)
    \/ \E e \in Envs : GetLatestRate(USD, EUR, e)
    \/ Return

SpecHealth == InitAnyConfig /\ [][NextHealth]_vars

\* requests with any non-empty codes, answered by any rate mapping.  A code is
\* a path segment or a JSON string, so it may hold a colon; the upstream may
\* quote any number.  The first two pairs format to the same key.
AnyPairs ==
    {<<<<"USD", ":", "EUR">>, <<"GBP">>>>, <<<<"USD">>, <<"EUR", ":", "GBP">>>>,
     <<<<"USD">>, <<"GBP">>>>}

AnyResponses ==
    {[neterr |-> TRUE, status |-> 0, decodable |-> FALSE, result |-> "", rates |-> NoRates],
     [neterr |-> FALSE, status |-> 500, decodable |-> FALSE, result |-> "", rates |-> NoRates],
     [neterr |-> FALSE, status |-> StatusOK, decodable |-> FALSE, result |-> "", rates |-> NoRates],
     [neterr |-> FALSE, status |-> StatusOK, decodable |-> TRUE, result |-> "error",
      rates |-> [c \in {<<"GBP">>, <<"EUR", ":", "GBP">>} |-> 92]],
     [neterr |-> FALSE, status |-> StatusOK, decodable |-> TRUE, result |-> "success",
      rates |-> [c \in {<<"EUR">>} |-> 92]]}
    \cup {[neterr |-> FALSE, status |-> StatusOK, decodable |-> TRUE, result |-> "success",
           rates |-> [c \in {<<"GBP">>, <<"EUR", ":", "GBP">>} |-> v]] : v \in {0 - 5, 0, 92}}

NextAny ==
    \/ Tick(LatestTTL)
    \/ \E pair \in AnyPairs, g \in BOOLEAN, s \in BOOLEAN, up \in AnyResponses :
         GetLatestRate(pair[1], pair[2], [getOk |-> g, setOk |-> s, up |-> up])
    \/ \E pair \in AnyPairs, g \in BOOLEAN, s \in BOOLEAN, up \in AnyResponses :
         ConvertCurrency(ConversionRequest(pair[1], pair[2], 3, NoDate),
                         [getOk |-> g, setOk |-> s, up |-> up])
    \/ Return

SpecAny == Init /\ [][NextAny]_vars

(***************************************************************************)
(* Cancellation.  Every repository method hands its context to cache.Get,  *)
(* to the client (http.NewRequestWithContext) and to cache.Set.  A call     *)
(* made with a cancelled context fails; a cache command in flight when the  *)
(* context is cancelled either is aborted or has already reached the store. *)
(***************************************************************************)
\* mutant: the provider request is built without the context
WithCancel_RequestUnbound(e, ctx) ==
    CASE ctx.point = "none" -> e
      [] ctx.point = "before" -> [getOk |-> FALSE, setOk |-> FALSE, up |-> e.up]
      [] ctx.point = "get" -> [getOk |-> ctx.done /\ e.getOk, setOk |-> FALSE, up |-> e.up]
      [] ctx.point = "fetch" -> [getOk |-> e.getOk, setOk |-> FALSE, up |-> e.up]
      [] OTHER -> [getOk |-> e.getOk, setOk |-> ctx.done /\ e.setOk, up |-> e.up]

\* the environment of a call whose context is ctx, where e is what the cache
\* and the upstream would have answered had it not been cancelled
WithCancel(e, ctx) ==
    LET aborted == [neterr |-> TRUE, status |-> 0, decodable |-> FALSE, result |-> "",
                    rates |-> NoRates]
    IN CASE ctx.point = "none" -> e
         [] ctx.point = "before" -> [getOk |-> FALSE, setOk |-> FALSE, up |-> aborted]
         [] ctx.point = "get" -> [getOk |-> ctx.done /\ e.getOk, setOk |-> FALSE, up |-> aborted]
         [] ctx.point = "fetch" -> [getOk |-> e.getOk, setOk |-> FALSE, up |-> aborted]
         [] OTHER -> [getOk |-> e.getOk, setOk |-> ctx.done /\ e.setOk, up |-> e.up]

Contexts ==
    {Background, [point |-> "before", done |-> FALSE], [point |-> "fetch", done |-> FALSE]}
    \cup [point : {"get", "set"}, done : BOOLEAN]

\* an operation called with context ctx: live is what it does when the
\* context is never cancelled, r what it does with ctx; the call ctx names must
\* be one the operation makes
WithContext(op, args, live, r, ctx) ==
    /\ last = NoCall
    /\ \/ ctx.point \in {"none", "before"}
       \/ ctx.point = "get" /\ live.calls # <<>>
       \/ ctx.point = "fetch" /\ r.calls # <<>> /\ r.calls[1].pcalls = 1
       \/ ctx.point = "set" /\ live.calls # <<>> /\ live.calls[1].sets = 1
    /\ store' = r.st
    /\ firstCall' = NoteFirst(firstCall, r.calls, now)
    /\ seen' = NoteSeen(seen, r.calls)
    /\ last' = [Completed(op, args, r, FirstOf(firstCall, r.calls),
                          r.calls # <<>> /\ r.calls[1].key \in DOMAIN seen)
                  EXCEPT !.ctx = ctx]
    /\ UNCHANGED <<config, cache, now, ticks, procs>>

GetLatestRateCtx(ctx, base, target, e) ==
    WithContext("GetLatestRate", Args(base, target, 0, 0, NoDate, NoDate),
                SvcGetLatestRate(store, now, base, target, e),
                SvcGetLatestRate(store, now, base, target, WithCancel(e, ctx)), ctx)

GetHistoricalRateCtx(ctx, base, target, day, e) ==
    WithContext("GetHistoricalRate", Args(base, target, day, 0, NoDate, NoDate),
                SvcGetHistoricalRate(store, now, base, target, day, e),
                SvcGetHistoricalRate(store, now, base, target, day, WithCancel(e, ctx)), ctx)

GetSupportedCurrenciesCtx(ctx, e, order) ==
    WithContext("GetSupportedCurrencies", NoArgs,
                SvcGetSupportedCurrencies(store, now, e, order),
                SvcGetSupportedCurrencies(store, now, WithCancel(e, ctx), order), ctx)

NextCancel ==
    \/ Tick(LatestTTL)
    \/ \E ctx \in Contexts, t \in {USD, EUR}, e \in Envs : GetLatestRateCtx(ctx, USD, t, e)
    \/ \E ctx \in Contexts, d \in {1, MaxDay}, e \in Envs : GetHistoricalRateCtx(ctx, USD, EUR, d, e)
    \/ \E ctx \in Contexts, e \in Envs, o \in CodeOrders : GetSupportedCurrenciesCtx(ctx, e, o)
    \/ Return

SpecCancel == Init /\ [][NextCancel]_vars

(***************************************************************************)
(* Properties                                                              *)
(***************************************************************************)
RECURSIVE SumOf(_, _)
SumOf(calls, field) ==
    IF calls = <<>> THEN 0
    ELSE (CASE field = "gets" -> Head(calls).gets
            [] field = "sets" -> Head(calls).sets
            [] OTHER -> Head(calls).pcalls) + SumOf(Tail(calls), field)

CacheReads == SumOf(last.calls, "gets")
CacheWrites == SumOf(last.calls, "sets")
ProviderCalls == SumOf(last.calls, "pcalls")

\* a request the service let through to the repository
LatestCall == last.op = "GetLatestRate" /\ last.calls # <<>>

\* the call is a second one: a first call of its key against a cold cache
\* was made less than the latest-rate TTL before it
InWindow == last.first.at >= 0 /\ last.at < last.first.at + LatestTTL

\* C1 as stated: a first GetLatestRate call against a cold cache makes exactly
\* one provider call and exactly one cache write, and a second call for the
\* same pair within the TTL window makes no provider call.
C1_AsStated ==
    LatestCall =>
        /\ last.calls[1].cold => ProviderCalls = 1 /\ CacheWrites = 1
        /\ InWindow => ProviderCalls = 0

\* C1 (amended): a first GetLatestRate call against a cold cache makes exactly
\* one provider call and, when the provider succeeds, exactly one cache write
\* (none when it fails); when the networked cache stored that write, a second
\* call for the same pair within the TTL window that reaches the cache for
\* its read makes no provider call.
C1_ColdThenWarm ==
    LatestCall =>
        /\ last.calls[1].cold =>
              /\ ProviderCalls = 1
              /\ CacheWrites = (IF last.calls[1].fetched.ok THEN 1 ELSE 0)
        /\ (InWindow /\ last.first.stored /\ last.calls[1].connGet) => ProviderCalls = 0

\* a second call, later than the first and within its window, served with no provider call
C1_Witness ==
    /\ LatestCall /\ InWindow /\ last.first.stored
    /\ last.at > last.first.at
    /\ last.ok /\ ProviderCalls = 0 /\ CacheWrites = 0

\* C2: when the cache's Get and Set both return errors, GetLatestRate for a
\* valid pair succeeds whenever the provider succeeds, returns exactly the
\* provider's value, and returns no error.
C2_CacheFailureResilience ==
    (LatestCall /\ last.calls[1].getErr /\ last.calls[1].setErr /\ last.calls[1].fetched.ok) =>
        /\ last.ok
        /\ last.val = last.calls[1].fetched.val
        /\ IsNil(last.err)

C2_Witness ==
    /\ LatestCall /\ last.calls[1].getErr /\ last.calls[1].setErr
    /\ ~last.calls[1].cold
    /\ last.ok /\ last.val.Rate = 109

HistoricalCalls == {i \in DOMAIN last.calls : last.calls[i].fn = "GetHistoricalRate"}

\* C3 as stated: GetHistoricalRate calls for the same triple return identical
\* rate values, and once the entry is warm no later call for the triple
\* invokes the provider.
C3_AsStated ==
    \A i \in HistoricalCalls :
        /\ last.calls[i].ok => last.calls[i].val.Rate = seen[last.calls[i].key].Rate
        /\ last.calls[i].warm => last.calls[i].pcalls = 0

\* C3 (amended): GetHistoricalRate calls for the same triple that succeed
\* return identical rate values, and while the entry is warm no later call
\* for the triple that reaches the cache for its read invokes the provider.
C3_HistoricalIdempotent ==
    \A i \in HistoricalCalls :
        /\ last.calls[i].ok => last.calls[i].val = seen[last.calls[i].key]
        /\ (last.calls[i].warm /\ last.calls[i].connGet) => last.calls[i].pcalls = 0

\* a repeated lookup of a warm triple, answered from the cache
C3_Witness ==
    /\ last.op = "GetHistoricalRate" /\ last.again /\ last.ok
    /\ ~last.calls[1].cold /\ last.calls[1].pcalls = 0
    /\ last.val.Rate = 92

CoordinatorOps == {"GetLatestRate", "GetHistoricalRate", "GetSupportedCurrencies"}

\* the request missed the cache and its provider call failed
ProviderFailed(l) ==
    /\ l.op \in CoordinatorOps /\ l.calls # <<>>
    /\ l.calls[1].getErr /\ ~l.calls[1].fetched.ok

\* C4: a request that misses the cache and whose provider call fails makes
\* exactly one provider call, returns an error and no value, and leaves the
\* cache contents unchanged.
C4_NoRetryNoWrite ==
    [][ProviderFailed(last') =>
          /\ SumOf(last'.calls, "pcalls") = 1
          /\ SumOf(last'.calls, "sets") = 0
          /\ ~last'.ok /\ last'.val = NoVal /\ ~IsNil(last'.err)
          /\ store' = store]_vars

C4_Witness ==
    /\ ProviderFailed(last) /\ last.op = "GetSupportedCurrencies"
    /\ store # <<>> /\ ProviderCalls = 1

\* C5: a provider failure reaching the caller is an AppError of type
\* PROVIDER_ERROR that names the provider and carries the cause, and maps to
\* the service-unavailable status.
C5_ProviderErrorTyped ==
    ProviderFailed(last) =>
        /\ last.err.app /\ last.err.type = "PROVIDER_ERROR"
        /\ last.err.cause # ""
        /\ GetHTTPStatusCode(last.err) = StatusServiceUnavailable

Invalid(base, target) == base = EmptyString \/ target = EmptyString \/ base = target

\* C6: a GetLatestRate or GetHistoricalRate request with an empty base, an
\* empty target or base equal to target fails with a ValidationError, with
\* no cache read, no cache write and no provider call.
C6_ValidationShortCircuits ==
    (last.op \in {"GetLatestRate", "GetHistoricalRate"} /\ Invalid(last.args.base, last.args.target)) =>
        /\ ~last.ok /\ IsValidationError(last.err)
        /\ last.calls = <<>>
        /\ CacheReads = 0 /\ CacheWrites = 0 /\ ProviderCalls = 0

C6_Witness ==
    /\ last.op = "GetLatestRate" /\ last.args.base = USD /\ last.args.target = USD
    /\ IsValidationError(last.err)

\* C7: ConvertCurrency with amount <= 0, an empty from or to currency, or
\* from equal to to fails with a ValidationError before any cache or
\* provider access.
C7_ConversionValidation ==
    (/\ last.op = "ConvertCurrency"
     /\ \/ last.args.amount <= 0
        \/ Invalid(last.args.base, last.args.target)) =>
        /\ ~last.ok /\ IsValidationError(last.err)
        /\ last.calls = <<>>
        /\ CacheReads = 0 /\ CacheWrites = 0 /\ ProviderCalls = 0

C7_Witness ==
    /\ last.op = "ConvertCurrency" /\ last.args.amount = 0
    /\ last.args.base = USD /\ last.args.target = EUR
    /\ IsValidationError(last.err)

\* C8: a date-range lookup whose end date is before its start date fails
\* with no GetHistoricalRate call reaching the coordinator, and so with no
\* cache or provider access.
C8_ReversedRangeFails ==
    (/\ last.op \in {"GetHistoricalRates", "GetTimeSeries"}
     /\ last.args.date.day > 0 /\ last.args.endDate.day > 0
     /\ last.args.endDate.day < last.args.date.day) =>
        /\ ~last.ok
        /\ last.calls = <<>>
        /\ CacheReads = 0 /\ CacheWrites = 0 /\ ProviderCalls = 0

C8_Witness ==
    /\ last.op = "GetHistoricalRates"
    /\ last.args.base = USD /\ last.args.target = EUR
    /\ last.args.date = [layout |-> Layouts[1], day |-> 2]
    /\ last.args.endDate = [layout |-> Layouts[1], day |-> 1]
    /\ ~last.ok /\ last.val.Error = "end_date must be after start_date"

\* C9: a successful ConvertCurrency answers convertedAmount = amount * the
\* resolved rate, with the resolved rate's value, provider and fetch
\* timestamp unchanged.
C9_ConversionArithmetic ==
    (last.op = "ConvertCurrency" /\ last.ok) =>
        /\ Len(last.calls) = 1
        /\ last.val.ConvertedAmount = last.args.amount * last.calls[1].val.Rate
        /\ last.val.Rate = last.calls[1].val.Rate
        /\ last.val.Provider = last.calls[1].val.Provider
        /\ last.val.FetchedAt = last.calls[1].val.FetchedAt

\* rate 0.92 and amount 100 give 92, from a rate cached at an earlier time
C9_Witness ==
    /\ last.op = "ConvertCurrency" /\ last.ok
    /\ last.args.amount = 100 /\ last.val.Rate = 92 /\ last.val.ConvertedAmount = 9200
    /\ last.val.FetchedAt < last.at /\ last.args.date = NoDate

\* C10: HealthCheck reports the cache's status and the provider's status
\* separately, each from its own probe, and probes the provider whether or
\* not the cache ping failed.
C10_HealthIndependent ==
    last.op = "HealthCheck" =>
        /\ last.ok /\ last.pings = 1 /\ last.probes = 1
        /\ DOMAIN last.val.Providers = {<<"cache">>, ProviderName}
        /\ last.val.Providers[<<"cache">>] = (IF last.pingErr THEN "unhealthy" ELSE "healthy")
        /\ last.val.Providers[ProviderName] = (IF last.healthErr THEN "unhealthy" ELSE "healthy")

\* the cache is unreachable and the provider reachable
C10_Witness ==
    /\ last.op = "HealthCheck" /\ last.pingErr /\ ~last.healthErr
    /\ last.val.Providers[<<"cache">>] = "unhealthy"
    /\ last.val.Providers[ProviderName] = "healthy"

\* C11: the overall status of the health output is composed from the
\* dependency statuses: Status is "healthy" only when the cache ping and the
\* provider probe both succeeded, and Cache is "connected" only when the
\* cache ping succeeded.
C11_OverallStatusComposed ==
    (last.op = "HealthCheck" /\ last.ok) =>
        /\ last.val.Status = "healthy" => (~last.pingErr /\ ~last.healthErr)
        /\ last.val.Cache = "connected" => ~last.pingErr

StatusTokens == {"healthy", "unhealthy", "unconfigured"}

IsLatestForm(k, base, target) ==
    k = <<"rate", ":">> \o base \o <<":">> \o target \o <<":", "latest">>

IsHistoricalForm(k, base, target, day) ==
    k = <<"rate", ":">> \o base \o <<":">> \o target \o <<":", DateStr[day]>>

IsCurrenciesForm(k) == k = <<"currencies", ":", "supported">>

\* C13: every key the coordinator reads or writes is rate:{base}:{target}:latest
\* for GetLatestRate, rate:{base}:{target}:{YYYY-MM-DD} for GetHistoricalRate
\* and currencies:supported for GetSupportedCurrencies, for the pair (and date)
\* of the request, and a write goes to the key that was read; the cache holds
\* keys of these forms only, so no conversion response and no health status
\* is ever written to it.
C13_KeyScheme ==
    /\ \A i \in DOMAIN last.calls :
          LET c == last.calls[i]
          IN CASE c.fn = "GetLatestRate" ->
                    IsLatestForm(c.key, last.args.base, last.args.target)
               [] c.fn = "GetHistoricalRate" ->
                    /\ \E d \in DOMAIN DateStr :
                          IsHistoricalForm(c.key, last.args.base, last.args.target, d)
                    /\ last.op = "GetHistoricalRate" =>
                          IsHistoricalForm(c.key, last.args.base, last.args.target,
                                           last.args.day)
                    /\ last.op = "ConvertCurrency" =>
                          IsHistoricalForm(c.key, last.args.base, last.args.target,
                                           last.args.date.day)
               [] OTHER -> IsCurrenciesForm(c.key)
    /\ \A k \in DOMAIN store :
          \/ IsCurrenciesForm(k)
          \/ \E b \in RealCodes, t \in RealCodes :
                \/ IsLatestForm(k, b, t)
                \/ \E d \in DOMAIN DateStr : IsHistoricalForm(k, b, t, d)
    /\ \A i \in DOMAIN last.calls :
          last.calls[i].changed => last.calls[i].key \in DOMAIN store
    /\ last.op = "HealthCheck" => last.calls = <<>>

\* a conversion that fetched its rate and left it, and nothing else, in the cache
C13_Witness ==
    /\ last.op = "ConvertCurrency" /\ last.ok
    /\ last.calls[1].sets = 1 /\ last.calls[1].changed
    /\ DOMAIN store = {<<"rate", ":", "USD", ":", "EUR", ":", "latest">>}

\* C14: an entry written by GetLatestRate expires 5 minutes after the write and
\* an entry written by GetHistoricalRate or GetSupportedCurrencies 24 hours
\* (1440 minutes) after it, and the longer expiration is strictly greater
\* than the shorter.
C14_TTLClasses ==
    /\ \A i \in DOMAIN last.calls :
          LET c == last.calls[i]
          IN (c.sets = 1 /\ c.changed) =>
                store[c.key].exp - last.at = (IF c.fn = "GetLatestRate" THEN 5 ELSE 1440)
    /\ HistoricalTTL > LatestTTL /\ CurrenciesTTL > LatestTTL

\* a currency list written after time has passed, to expire a day later
C14_Witness ==
    /\ last.op = "GetSupportedCurrencies" /\ last.ok /\ last.at > 0
    /\ last.calls[1].sets = 1 /\ last.calls[1].changed
    /\ store[CurrenciesKey].exp = last.at + 1440

\* the read of the call cannot succeed: the fallback cache never answers, the
\* networked store is not reached, holds no live entry for the key, or holds
\* one that does not decode
ReadFails(c) == cache = "memory" \/ ~c.connGet \/ c.cold \/ ~c.warm

\* C15: every kind of cache read error (connection failure, deserialization
\* failure, key not found) is treated as a miss by GetLatestRate,
\* GetHistoricalRate and GetSupportedCurrencies: the provider is called once,
\* and the value returned is the provider's, with no field of a partially
\* decoded entry; when the provider fails, the provider's error is returned.
C15_ReadErrorIsMiss ==
    (last.op \in CoordinatorOps /\ last.calls # <<>> /\ ReadFails(last.calls[1])) =>
        LET c == last.calls[1]
        IN /\ c.pcalls = 1
           /\ c.fetched.ok => (last.ok /\ last.val = c.fetched.val /\ IsNil(last.err))
           /\ ~c.fetched.ok => (~last.ok /\ last.val = NoVal /\ last.err = c.fetched.err)

\* the store is reached and holds an entry for the pair that does not decode;
\* the answer is the rate fetched now
C15_Witness ==
    /\ LatestCall /\ cache = "redis"
    /\ last.calls[1].connGet /\ ~last.calls[1].cold /\ ~last.calls[1].warm
    /\ last.ok /\ last.val.Rate = 109 /\ last.val.FetchedAt = last.at

CurrenciesCall == last.op = "GetSupportedCurrencies" /\ last.calls # <<>>

\* the call is a later one: a call that missed and fetched the list was made
\* less than the currency-list TTL before it
CurrenciesInWindow == last.first.at >= 0 /\ last.at < last.first.at + CurrenciesTTL

\* what a hit and a miss of GetSupportedCurrencies do
CurrenciesHitAndMiss ==
    LET c == last.calls[1]
    IN /\ ~ReadFails(c) =>
             /\ c.pcalls = 0 /\ c.sets = 0 /\ last.ok
             /\ last.val = Unmarshal(store[c.key].bytes, "Currencies").val
       /\ (ReadFails(c) /\ c.fetched.ok) =>
             /\ c.pcalls = 1 /\ c.sets = 1
             /\ last.ok /\ last.val = c.fetched.val
             /\ (cache = "redis" /\ ~c.setErr) =>
                   Unmarshal(store[c.key].bytes, "Currencies").val = c.fetched.val

\* C16 as stated: on a hit GetSupportedCurrencies returns the cached list with
\* no provider call; on a miss it makes one provider call, writes the fetched
\* list to currencies:supported and returns it; a later call within the TTL
\* makes no provider call.
C16_AsStated ==
    CurrenciesCall =>
        /\ CurrenciesHitAndMiss
        /\ CurrenciesInWindow => ProviderCalls = 0

\* C16 (amended): on a hit GetSupportedCurrencies returns the cached list with
\* no provider call; on a miss it makes one provider call and, when the fetch
\* succeeds, writes the fetched list to currencies:supported and returns it;
\* when the networked cache stored that write, a later call within the TTL
\* that reaches the cache for its read makes no provider call.
C16_CurrenciesCacheAside ==
    CurrenciesCall =>
        /\ CurrenciesHitAndMiss
        /\ ReadFails(last.calls[1]) => ProviderCalls = 1
        /\ (CurrenciesInWindow /\ last.first.stored /\ last.calls[1].connGet) =>
              ProviderCalls = 0

\* a later call, after time has passed, answered with the list cached earlier
C16_Witness ==
    /\ CurrenciesCall /\ CurrenciesInWindow /\ last.first.stored
    /\ last.at > last.first.at
    /\ last.ok /\ ProviderCalls = 0 /\ last.val.items # <<>>

\* the requests that have returned a rate
Returned == {p \in Procs : procs[p].pc = "done" /\ procs[p].ret.ok}

\* C17 as stated: at the moment any GetLatestRate call returns, the value it
\* returns was fetched from the provider no more than 5 minutes (the
\* latest-rate TTL) earlier, under any interleaving and any delay between a
\* request's fetch and its cache write.
C17_AsStated ==
    \A p \in Returned :
        procs[p].ret.at - procs[p].ret.val.FetchedAt <= LatestTTL

\* C17 (amended): at the moment any GetLatestRate call returns, the value it
\* returns was either fetched by that call itself or read from a cache entry
\* that a request wrote less than 5 minutes earlier; the delay between that
\* request's fetch and its write adds to the lag.
C17_StalenessBound ==
    \A p \in Returned :
        IF procs[p].ret.fromCache
        THEN \E q \in Procs :
                /\ procs[q].wroteAt >= 0
                /\ procs[q].fetched.val = procs[p].ret.val
                /\ procs[p].ret.at < procs[q].wroteAt + 5
        ELSE /\ procs[p].ret.val = procs[p].fetched.val
             /\ procs[p].ret.val.FetchedAt <= procs[p].ret.at

\* a rate read from the cache within 5 minutes of its write and more than 5
\* minutes after its fetch
C17_Witness ==
    \E p \in Returned, q \in Procs :
        /\ procs[p].ret.fromCache
        /\ procs[q].wroteAt >= 0 /\ procs[q].fetched.val = procs[p].ret.val
        /\ procs[p].ret.at < procs[q].wroteAt + 5
        /\ procs[p].ret.at - procs[p].ret.val.FetchedAt > 5

\* the requests that missed a cold key and fetched a rate
Stampeded == {p \in Procs : procs[p].cold /\ procs[p].fetched.ok}

\* C18: concurrent GetLatestRate calls for the same cold key are not
\* coalesced: each call that missed returns the value it fetched itself, and
\* once all have finished, the cached value for the key, when a write of
\* theirs reached the cache and has not expired, is one of the fetched values.
\* That all of them miss and all call the provider is the witness.
C18_NoCoalescing ==
    /\ \A p \in Returned : ~procs[p].ret.fromCache => procs[p].ret.val = procs[p].fetched.val
    /\ (/\ Stampeded = Procs
        /\ \A p \in Procs : procs[p].pc = "done"
        /\ \E p \in Procs : procs[p].wroteAt >= 0
        /\ LatestKey(USD, EUR) \in DOMAIN store) =>
          \E p \in Procs :
             Unmarshal(store[LatestKey(USD, EUR)].bytes, "ExchangeRate").val = procs[p].fetched.val

\* every request missed the same cold key, every one called the provider, two
\* of them fetched different rates, and the cache holds the key
C18_Witness ==
    /\ Stampeded = Procs
    /\ \A p \in Procs : procs[p].pc = "done" /\ procs[p].ret.ok /\ procs[p].wroteAt >= 0
    /\ \A p \in Procs : procs[p].base = USD /\ procs[p].target = EUR
    /\ \E p, q \in Procs : procs[p].ret.val.Rate # procs[q].ret.val.Rate
    /\ LatestKey(USD, EUR) \in DOMAIN store

\* what a caller can tell an error's kind by: whether it is an AppError, its
\* type, and the status it maps to
ErrorKind(err) ==
    [app |-> err.app, type |-> err.type, status |-> GetHTTPStatusCode(err)]

\* the errors of a provider request that failed at the transport, by its
\* status or by its body
GenericFailures ==
    {ClientGetLatestRate(USD, EUR, up, 0).err :
       up \in {u \in UpResponses : ~ClientGetLatestRate(USD, EUR, u, 0).ok}}

\* C19: when the provider does not support historical rates, the failure
\* GetHistoricalRate returns is distinguishable, by its kind, from a generic
\* provider failure such as a network error or a non-success status.
C19_UnsupportedDistinguishable ==
    (last.op = "GetHistoricalRate" /\ ProviderFailed(last)) =>
        \A g \in GenericFailures : ErrorKind(last.err) # ErrorKind(g)

\* C20: the cache backend chosen at construction is never re-selected: no step
\* changes which backend is used, and a repository built on the in-process
\* fallback stores nothing and misses every read, also when the networked
\* cache can be reached later.
C20_BackendFixed ==
    [][/\ cache' = cache
       /\ cache = "memory" =>
             /\ store' = store
             /\ \A i \in DOMAIN last'.calls : last'.calls[i].getErr]_vars

\* a repository on the fallback, a call made while the networked store is
\* reachable: the rate is fetched, the write is accepted and nothing is stored
C20_Witness ==
    /\ cache = "memory" /\ LatestCall /\ last.ok
    /\ last.calls[1].connGet /\ last.calls[1].sets = 1 /\ ~last.calls[1].setErr
    /\ ProviderCalls = 1 /\ DOMAIN store = {}

\* C21: on the in-process fallback every Get reports a miss and every Set
\* succeeds without storing, so every valid GetLatestRate and
\* GetSupportedCurrencies call makes exactly one provider call and returns
\* what the provider returned (its value, or its error), however many times
\* the request is repeated.
C21_FallbackAlwaysFetches ==
    (/\ cache = "memory"
     /\ last.op \in {"GetLatestRate", "GetSupportedCurrencies"}
     /\ last.calls # <<>>) =>
        LET c == last.calls[1]
        IN /\ Len(last.calls) = 1
           /\ c.gets = 1 /\ c.getErr /\ c.pcalls = 1
           /\ c.sets = (IF c.fetched.ok THEN 1 ELSE 0) /\ ~c.setErr
           /\ DOMAIN store = {}
           /\ last.ok = c.fetched.ok /\ last.val = c.fetched.val /\ last.err = c.fetched.err

\* a repeated request on the fallback, later than the first and within the
\* TTL of what the first fetched, fetching again
C21_Witness ==
    /\ cache = "memory" /\ LatestCall
    /\ last.first.at >= 0 /\ last.at > last.first.at /\ InWindow
    /\ ProviderCalls = 1 /\ last.ok /\ last.val.FetchedAt = last.at

\* C22: every rate GetLatestRate or GetHistoricalRate returns, and every rate
\* ConvertCurrency computes a converted amount with, is strictly positive,
\* whatever rate mapping the provider's response holds.
C22_RatePositive ==
    /\ (last.op \in {"GetLatestRate", "GetHistoricalRate"} /\ last.ok) => last.val.Rate > 0
    /\ (last.op = "ConvertCurrency" /\ last.ok) =>
          /\ last.val.Rate > 0
          /\ \A i \in DOMAIN last.calls : last.calls[i].val.Rate > 0

\* C23: a validation failure on a rate, conversion or time-series request is
\* answered, on the route the router registers for it, with a 4xx status and
\* not with a success status.
C23_ValidationIs4xx ==
    (/\ last.op \in {"GetLatestRate", "GetHistoricalRate", "ConvertCurrency"}
     /\ IsValidationError(last.err)) =>
        /\ NewRouter(last).status >= 400 /\ NewRouter(last).status < 500
        /\ NewRouter(last).status # StatusOK

\* the context of the completed operation was cancelled before or during one
\* of its calls
Cancelled == last.op # "none" /\ last.ctx # Background

\* C24 as stated: an operation whose context is cancelled before or during
\* its cache or provider call returns an error and leaves no new entry in
\* the cache.
C24_CancelledReturnsError ==
    Cancelled =>
        /\ ~last.ok /\ ~IsNil(last.err)
        /\ \A i \in DOMAIN last.calls : ~last.calls[i].changed

\* C24, amended: a context cancelled when the operation starts, or during
\* its provider request, or during a cache read that is aborted, makes the
\* operation return an error without writing to the cache; a cache read that
\* had completed is answered as usual, with the entry on a hit and with the
\* failed provider request's error otherwise; a cancellation during the cache
\* write fails at most the write: the operation returns the fetched value with
\* a nil error.  Only in that last case can the cache hold a new entry.
C24_CancelledAmended ==
    Cancelled =>
        LET p == last.ctx.point
            aborts == p \in {"before", "fetch"} \/ (p = "get" /\ ~last.ctx.done)
        IN /\ aborts =>
                /\ ~last.ok /\ ~IsNil(last.err)
                /\ \A i \in DOMAIN last.calls :
                     last.calls[i].sets = 0 /\ ~last.calls[i].changed
           /\ (p = "get" /\ last.ctx.done) =>
                /\ last.calls[1].sets = 0 /\ ~last.calls[1].changed
                /\ last.ok <=> (last.calls[1].pcalls = 0)
                /\ last.ok => last.calls[1].warm
           /\ p = "set" =>
                /\ last.ok /\ IsNil(last.err)
                /\ last.calls[1].pcalls = 1 /\ last.calls[1].sets = 1
                /\ last.val = last.calls[1].fetched.val
           /\ (\E i \in DOMAIN last.calls : last.calls[i].changed) => p = "set"

\* a call cancelled during its cache write returned the fetched rate and the
\* entry is in the store
C24_Witness ==
    /\ Cancelled /\ last.ctx.point = "set" /\ cache = "redis"
    /\ last.ok /\ last.calls[1].changed
    /\ last.calls[1].key \in DOMAIN store

\* C25: the provider client's GetLatestRate fails, with no rate, when the
\* upstream status is not 200, the body does not decode, the success indicator
\* is not "success" or the rate mapping lacks the target; it returns a rate
\* only when all four checks pass, and that rate carries the requested base,
\* the requested target and the provider's name.
C25_ClientChecks ==
    (LatestCall /\ last.calls # <<>> /\ last.calls[1].pcalls = 1) =>
        LET c == last.calls[1]
            up == c.up
            passes == /\ ~up.neterr /\ up.status = StatusOK /\ up.decodable
                      /\ up.result = "success" /\ last.args.target \in DOMAIN up.rates
        IN /\ c.fetched.ok <=> passes
           /\ ~c.fetched.ok => c.fetched.val = NoVal /\ ~IsNil(c.fetched.err)
           /\ c.fetched.ok =>
                /\ IsNil(c.fetched.err)
                /\ c.fetched.val.BaseCurrency = last.args.base
                /\ c.fetched.val.TargetCurrency = last.args.target
                /\ c.fetched.val.Provider = ProviderName
                /\ c.fetched.val.Rate = up.rates[last.args.target]

\* the upstream answered 200 with a decodable body whose indicator is not
\* "success" although it quotes the target, and the client returned a failure
C25_Witness ==
    /\ LatestCall /\ last.calls # <<>> /\ last.calls[1].pcalls = 1
    /\ last.calls[1].up.status = StatusOK /\ last.calls[1].up.decodable
    /\ last.calls[1].up.result # "success"
    /\ last.args.target \in DOMAIN last.calls[1].up.rates
    /\ ~last.calls[1].fetched.ok /\ ~last.ok

\* C26: ConvertCurrency resolves its rate through GetHistoricalRate when the
\* request carries a date and through GetLatestRate when it carries none,
\* with exactly one coordinator call per valid request; a date that is not in
\* YYYY-MM-DD form yields a ValidationError and no coordinator call.
C26_ConvertRouting ==
    (/\ last.op = "ConvertCurrency"
     /\ IsNil(validateConversionRequest(
                ConversionRequest(last.args.base, last.args.target, last.args.amount,
                                  last.args.date)))) =>
        LET d == last.args.date
        IN /\ d = NoDate =>
                /\ Len(last.calls) = 1
                /\ last.calls[1].fn = "GetLatestRate"
                /\ last.calls[1].key = LatestKey(last.args.base, last.args.target)
           /\ (d # NoDate /\ d.layout = Layouts[1]) =>
                /\ Len(last.calls) = 1
                /\ last.calls[1].fn = "GetHistoricalRate"
                /\ last.calls[1].key = HistoricalKey(last.args.base, last.args.target, d.day)
           /\ (d # NoDate /\ d.layout # Layouts[1]) =>
                /\ last.calls = <<>> /\ ~last.ok
                /\ IsValidationError(last.err)
                /\ last.err.message = "invalid date format"

\* a dated conversion answered from the historical entry of its day
C26_Witness ==
    /\ last.op = "ConvertCurrency" /\ last.ok
    /\ last.args.date.layout = Layouts[1]
    /\ Len(last.calls) = 1 /\ last.calls[1].fn = "GetHistoricalRate"
    /\ last.calls[1].pcalls = 0
    /\ last.val.Rate = last.calls[1].val.Rate

\* C27: for a range start <= end the routed time-series endpoint asks for the
\* historical rate of each day from start to end, in ascending order, until
\* one fails; on the first failing day it stops and answers with that error
\* and no rates, so a successful response holds exactly one rate per day of
\* the range.
C27_SeriesSequential ==
    (/\ last.op = "GetHistoricalRates"
     /\ parseDate(last.args.date).ok /\ parseDate(last.args.endDate).ok
     /\ parseDate(last.args.date).day <= parseDate(last.args.endDate).day) =>
        LET start == parseDate(last.args.date).day
            n == parseDate(last.args.endDate).day - start + 1
            calls == last.calls
            valid == IsNil(validateCurrencies(last.args.base, last.args.target))
        IN /\ Len(calls) <= n
           /\ valid <=> Len(calls) >= 1
           /\ \A i \in DOMAIN calls :
                /\ calls[i].fn = "GetHistoricalRate"
                /\ calls[i].key = HistoricalKey(last.args.base, last.args.target, start + i - 1)
                /\ i < Len(calls) => calls[i].ok
           /\ last.val.Error = "" =>
                /\ Len(calls) = n /\ Len(last.val.Rates) = n
                /\ \A i \in 1..n : /\ last.val.Rates[i] = calls[i].val
                                   /\ last.val.Rates[i].Date = start + i - 1
           /\ last.val.Error # "" =>
                /\ last.val.Rates = <<>>
                /\ valid => /\ ~calls[Len(calls)].ok
                            /\ last.val.Error = calls[Len(calls)].err.message

\* a range of two days answered with the two days' rates, in order
C27_Witness ==
    /\ last.op = "GetHistoricalRates" /\ last.val.Error = ""
    /\ Len(last.calls) = 2 /\ Len(last.val.Rates) = 2
    /\ last.val.Rates[1].Date = 1 /\ last.val.Rates[2].Date = 2

\* C28: every successful GetLatestRate(base, target), served from the cache
\* or from the provider, returns a rate whose BaseCurrency is base and whose
\* TargetCurrency is target, for all non-empty codes that pass validation,
\* codes holding a colon included.
C28_PairPreserved ==
    (LatestCall /\ last.ok) =>
        /\ last.val.BaseCurrency = last.args.base
        /\ last.val.TargetCurrency = last.args.target

\* C29: a repository that runs on the in-process fallback reports the cache
\* as "healthy" in every HealthCheck, whether or not the networked cache can
\* be reached when the check is made.
C29_FallbackAlwaysHealthy ==
    (cache = "memory" /\ last.op = "HealthCheck") =>
        /\ ~last.pingErr
        /\ last.val.Providers[<<"cache">>] = "healthy"

\* a check on the fallback made while the networked cache is unreachable
C29_Witness ==
    /\ cache = "memory" /\ last.op = "HealthCheck" /\ ~last.connPing
    /\ last.val.Providers[<<"cache">>] = "healthy"

\* C30: HealthCheck never returns an error and neither reads nor writes a
\* cache key: whatever the cache and the provider do, it returns a status map
\* with a nil error after exactly one cache ping and at most one provider
\* health request, and the /health handler answers with a success response.
C30_HealthNeverFails ==
    [][(last.op = "none" /\ last'.op = "HealthCheck") =>
          /\ last'.ok /\ IsNil(last'.err)
          /\ <<"cache">> \in DOMAIN last'.val.Providers
          /\ last'.pings = 1 /\ last'.probes <= 1
          /\ last'.calls = <<>>
          /\ store' = store
          /\ NewRouter(last').status = StatusOK /\ NewRouter(last').success]_vars

\* a check made over a live entry while neither the cache nor the provider
\* answers: both are reported unhealthy in a success response
C30_Witness ==
    /\ last.op = "HealthCheck" /\ last.pingErr /\ last.healthErr
    /\ last.ok /\ NewRouter(last).status = StatusOK
    /\ last.val.Providers[<<"cache">>] = "unhealthy"
    /\ DOMAIN store # {}

====
